---- MODULE Spec2Model ----
(***************************************************************************)
(* Model of the GolfGod backtesting core:                                  *)
(*   src/src/backtesting/strategy.py        BettingStrategy                *)
(*   src/src/backtesting/roi_calculator.py  ROICalculator                  *)
(*                                                                         *)
(* Python floats are modelled as exact rationals <<n, d>> in lowest terms  *)
(* with d > 0; IEEE-754 rounding is not modelled.  nan is <<0, 0>> and the *)
(* infinities are <<1, 0>> and <<-1, 0>>.                                  *)
(***************************************************************************)
EXTENDS Integers, Sequences, FiniteSets, TLC

(***************************************************************************)
(* Exact arithmetic standing for Python's float operators.                 *)
(***************************************************************************)
Abs(n) == IF n < 0 THEN -n ELSE n

RECURSIVE GCD(_, _)
GCD(a, b) == IF b = 0 THEN a ELSE GCD(b, a % b)

Norm(n, d) ==
    LET s == IF d < 0 THEN -1 ELSE 1
        g == GCD(Abs(n), Abs(d))
    IN  <<(s * n) \div g, (s * d) \div g>>

R(n) == <<n, 1>>
Q(n, d) == Norm(n, d)

RAdd(a, b) == Norm(a[1] * b[2] + b[1] * a[2], a[2] * b[2])
RSub(a, b) == Norm(a[1] * b[2] - b[1] * a[2], a[2] * b[2])
RMul(a, b) == Norm(a[1] * b[1], a[2] * b[2])
RDiv(a, b) == Norm(a[1] * b[2], a[2] * b[1])
RNeg(a) == <<-a[1], a[2]>>
RLt(a, b) == a[1] * b[2] < b[1] * a[2]
RLe(a, b) == a[1] * b[2] <= b[1] * a[2]
RMin(a, b) == IF RLt(b, a) THEN b ELSE a
RMax(a, b) == IF RLt(a, b) THEN b ELSE a
RAbs(a) == <<Abs(a[1]), a[2]>>

Zero == R(0)
One == R(1)
Hundred == R(100)
None == "None"
\* an absent american_odds argument; a given one is the 1-tuple <<a>>
NoAmerican == <<>>
\* float nan and infinities
NaN == <<0, 0>>
Inf == <<1, 0>>
NegInf == <<-1, 0>>
IsFinite(a) == a[2] # 0

\* a <= b on floats: false when either side is nan
FLe(a, b) == a # NaN /\ b # NaN /\ RLe(a, b)

(***************************************************************************)
(* Bounds and input sets.                                                   *)
(***************************************************************************)
MaxBets == 2

\* constructor arguments of a BettingStrategy
KellyFractions == {Q(1, 4), One}
MaxBetPcts == {Q(1, 20), One}
\* arguments of calculate_edge / kelly_bet_size
Edges == {Q(-1, 5), Zero, Q(1, 5), R(2)}
SizingOdds == {Q(1, 2), One, Q(3, 2), R(2), R(10)}
Probs == {Q(-1, 10), Zero, Q(1, 10), Q(1, 5)}
\* arguments of add_bet / place_bet: the wagers on offer, each a stake at
\* decimal odds, with the American form of the odds when the book quoted it
Wagers == {[stake |-> R(50), odds |-> R(15), american_odds |-> <<1400>>],
           [stake |-> R(40), odds |-> R(12), american_odds |-> <<1100>>],
           [stake |-> Zero, odds |-> R(12), american_odds |-> NoAmerican]}
Players == {"p1"}
Winners == {None, "p1", "p2"}
Tournaments == {"t1"}

(***************************************************************************)
(* State.                                                                   *)
(***************************************************************************)
VARIABLES
    initial_bankroll,     \* BettingStrategy.initial_bankroll
    bankroll,             \* BettingStrategy.bankroll
    kelly_fraction,       \* BettingStrategy.kelly_fraction
    min_edge,             \* BettingStrategy.min_edge
    max_bet_pct,          \* BettingStrategy.max_bet_pct
    bet_history,          \* BettingStrategy.bet_history
    roi_initial_bankroll, \* ROICalculator.initial_bankroll
    bets,                 \* ROICalculator.bets
    np_random_state,      \* state of numpy's global generator (np.random)
    estimator,            \* the strategy object whose probabilities are asked
    tournament_data,      \* the tournament_data dictionary of the caller
    ret                   \* the last call: its name, arguments and return value

vars == <<initial_bankroll, bankroll, kelly_fraction, min_edge, max_bet_pct,
          bet_history, roi_initial_bankroll, bets, np_random_state,
          estimator, tournament_data, ret>>

\* the fields the ledger operations and the analysis operations leave alone
estimation == <<estimator, tournament_data>>

strategyParams == <<initial_bankroll, kelly_fraction, min_edge, max_bet_pct>>

NoCall == [op |-> "init"]

\* the generator before any np.random.seed call: seeded from the operating
\* system's entropy, its draws unknown
Unseeded == -1

\* no estimator has been built and no tournament_data is at hand
NoEstimation ==
    /\ estimator = [kind |-> "none"]
    /\ tournament_data = [players |-> <<>>, avg_wind_mph |-> 0]

\* BettingStrategy.__init__(bankroll, kelly_fraction, min_edge, max_bet_pct)
StrategyInit(b, kf, me, mbp) ==
    /\ initial_bankroll = b
    /\ bankroll = b
    /\ kelly_fraction = kf
    /\ min_edge = me
    /\ max_bet_pct = mbp
    /\ bet_history = <<>>

\* ROICalculator.__init__(initial_bankroll)
CalculatorInit(b) ==
    /\ roi_initial_bankroll = b
    /\ bets = <<>>

\* both objects built with their default arguments
Init ==
    /\ StrategyInit(R(1000), Q(1, 4), Q(1, 20), Q(1, 20))
    /\ CalculatorInit(R(1000))
    /\ np_random_state = Unseeded
    /\ NoEstimation
    /\ ret = NoCall

\* a strategy built with explicit sizing parameters
InitParams ==
    /\ \E kf \in KellyFractions, mbp \in MaxBetPcts :
          StrategyInit(R(1000), kf, Q(1, 20), mbp)
    /\ CalculatorInit(R(1000))
    /\ np_random_state = Unseeded
    /\ NoEstimation
    /\ ret = NoCall

(***************************************************************************)
(* BettingStrategy: edge and stake sizing.                                  *)
(***************************************************************************)
\* mutation: the difference is not divided by market_prob
CalculateEdge_difference(our_prob, market_prob) ==
    IF RLe(market_prob, Zero)
    THEN Zero
    ELSE RSub(our_prob, market_prob)

CalculateEdge(our_prob, market_prob) ==
    IF RLe(market_prob, Zero)
    THEN Zero
    ELSE RDiv(RSub(our_prob, market_prob), market_prob)

\* mutation: a recovered probability outside [0, 1] is refused
KellyBetSize_checked(edge, odds, kf, mbp) ==
    IF RLe(edge, Zero) \/ RLe(odds, One)
    THEN Zero
    ELSE LET b == RSub(odds, One)
             p == RDiv(RAdd(edge, One), RAdd(b, One))
             q == RSub(One, p)
             kelly == RDiv(RSub(RMul(p, b), q), b)
             scaled == RMul(kelly, kf)
         IN  IF RLt(p, Zero) \/ RLt(One, p) THEN Zero
             ELSE RMin(scaled, mbp)

\* mutation: the Kelly fraction is not scaled by kelly_fraction
KellyBetSize_unscaled(edge, odds, kf, mbp) ==
    IF RLe(edge, Zero) \/ RLe(odds, One)
    THEN Zero
    ELSE LET b == RSub(odds, One)
             p == RDiv(RAdd(edge, One), RAdd(b, One))
             q == RSub(One, p)
             kelly == RDiv(RSub(RMul(p, b), q), b)
         IN  RMin(kelly, mbp)

\* mutation: the result is not capped at max_bet_pct
KellyBetSize_nocap(edge, odds, kf, mbp) ==
    IF RLe(edge, Zero) \/ RLe(odds, One)
    THEN Zero
    ELSE LET b == RSub(odds, One)
             p == RDiv(RAdd(edge, One), RAdd(b, One))
             q == RSub(One, p)
             kelly == RDiv(RSub(RMul(p, b), q), b)
         IN  RMul(kelly, kf)

\* mutation: the guard tests only the odds
KellyBetSize_noedgeguard(edge, odds, kf, mbp) ==
    IF RLe(odds, One)
    THEN Zero
    ELSE LET b == RSub(odds, One)
             p == RDiv(RAdd(edge, One), RAdd(b, One))
             q == RSub(One, p)
             kelly == RDiv(RSub(RMul(p, b), q), b)
             scaled == RMul(kelly, kf)
         IN  RMin(scaled, mbp)

KellyBetSize(edge, odds, kf, mbp) ==
    IF RLe(edge, Zero) \/ RLe(odds, One)
    THEN Zero
    ELSE LET b == RSub(odds, One)
             p == RDiv(RAdd(edge, One), RAdd(b, One))
             q == RSub(One, p)
             kelly == RDiv(RSub(RMul(p, b), q), b)
             scaled == RMul(kelly, kf)
         IN  RMin(scaled, mbp)

calculate_edge ==
    \E our_prob \in Probs, market_prob \in Probs :
        /\ ret' = [op |-> "calculate_edge", our_prob |-> our_prob,
                   market_prob |-> market_prob,
                   val |-> CalculateEdge(our_prob, market_prob)]
        /\ UNCHANGED <<estimation, np_random_state, strategyParams, bankroll,
                       bet_history, roi_initial_bankroll, bets>>

kelly_bet_size ==
    \E edge \in Edges, odds \in SizingOdds :
        /\ ret' = [op |-> "kelly_bet_size", edge |-> edge, odds |-> odds,
                   val |-> KellyBetSize(edge, odds, kelly_fraction, max_bet_pct)]
        /\ UNCHANGED <<estimation, np_random_state, strategyParams, bankroll,
                       bet_history, roi_initial_bankroll, bets>>

NextSizing == calculate_edge \/ kelly_bet_size

SpecSizing == InitParams /\ [][NextSizing]_vars

C2_KellyZeroOnReject ==
    (ret.op = "kelly_bet_size" /\ (RLe(ret.edge, Zero) \/ RLe(ret.odds, One)))
        => ret.val = Zero

\* C2 witness: a rejected call with a negative edge at acceptable odds, and
\* the strategy is not the default one.
C2_Witness ==
    /\ ret.op = "kelly_bet_size"
    /\ RLt(ret.edge, Zero) /\ RLt(One, ret.odds)
    /\ kelly_fraction = One
    /\ ret.val = Zero

\* the call kelly_bet_size(edge=0.20, odds=10.0) on a strategy with
\* kelly_fraction=0.25 and max_bet_pct=0.05
SizingScenario ==
    /\ ret.op = "kelly_bet_size"
    /\ ret.edge = Q(1, 5) /\ ret.odds = R(10)
    /\ kelly_fraction = Q(1, 4) /\ max_bet_pct = Q(1, 20)

\* C21 (as claimed): kelly_bet_size(0.20, 10.0) with kelly_fraction 0.25 and
\* max_bet_pct 0.05 returns 0.05, the cap.
C21_ScenarioCapped == SizingScenario => ret.val = Q(1, 20)

\* C21 (amended): that call returns 0.25 * 0.20/9 = 1/180, which is below
\* the cap 0.05, so the cap does not act.
C21_ScenarioBelowCap ==
    SizingScenario =>
        /\ ret.val = Q(1, 180)
        /\ RLt(ret.val, max_bet_pct)

\* C21 witness: the call of the scenario has returned.
C21_Witness == SizingScenario /\ ret.val = RMul(Q(1, 4), Q(1, 45))

Column(rows, field) == [i \in 1..Len(rows) |-> rows[i][field]]

RECURSIVE RSum(_)
RSum(xs) == IF Len(xs) = 0 THEN Zero
            ELSE RAdd(RSum(SubSeq(xs, 1, Len(xs) - 1)), xs[Len(xs)])

(***************************************************************************)
(* BettingStrategy.place_bet                                                *)
(***************************************************************************)
\* the truth value Python gives to the actual_winner argument
Truthy(x) == x # None /\ x # ""

PlaceBetWon(player, actual_winner) ==
    Truthy(actual_winner) /\ player = actual_winner

PlaceBetRecord(player, amount, odds, tournament, actual_winner) ==
    LET won == PlaceBetWon(player, actual_winner)
    IN  [tournament |-> tournament,
         player |-> player,
         amount |-> amount,
         odds |-> odds,
         potential_return |-> RMul(amount, odds),
         actual_winner |-> actual_winner,
         won |-> won,
         profit |-> IF won THEN RSub(RMul(amount, odds), amount)
                    ELSE RNeg(amount)]

\* mutation: a win credits the whole return instead of the profit
PlaceBetBankroll_creditreturn(b, bet) ==
    IF bet.won THEN RAdd(b, bet.potential_return) ELSE RSub(b, bet.amount)

PlaceBetBankroll(b, bet) ==
    IF bet.won THEN RAdd(b, bet.profit) ELSE RSub(b, bet.amount)

place_bet ==
    /\ Len(bets) + Len(bet_history) < MaxBets
    /\ \E player \in Players, w \in Wagers,
          tournament \in Tournaments, actual_winner \in Winners :
          LET bet == PlaceBetRecord(player, w.stake, w.odds, tournament,
                                    actual_winner)
          IN  /\ bankroll' = PlaceBetBankroll(bankroll, bet)
              /\ bet_history' = Append(bet_history, bet)
              /\ ret' = [op |-> "place_bet", val |-> bet]
    /\ UNCHANGED <<estimation, np_random_state, strategyParams,
                   roi_initial_bankroll, bets>>

(***************************************************************************)
(* ROICalculator.add_bet and calculate_roi                                  *)
(***************************************************************************)
\* mutation: the profit of a win keeps the stake
AddBetRecord_grossprofit(stake, odds, won, american_odds) ==
    LET profit == IF won THEN RMul(stake, odds) ELSE RNeg(stake)
    IN  [stake |-> stake,
         odds |-> odds,
         american_odds |-> american_odds,
         won |-> won,
         profit |-> profit,
         return |-> RAdd(stake, profit)]

AddBetRecord(stake, odds, won, american_odds) ==
    LET profit == IF won THEN RSub(RMul(stake, odds), stake) ELSE RNeg(stake)
    IN  [stake |-> stake,
         odds |-> odds,
         american_odds |-> american_odds,
         won |-> won,
         profit |-> profit,
         return |-> RAdd(stake, profit)]

\* mutation: the new wager is put at the head of the ledger
add_bet_prepend ==
    /\ Len(bets) + Len(bet_history) < MaxBets
    /\ \E w \in Wagers, won \in BOOLEAN :
          /\ bets' = <<AddBetRecord(w.stake, w.odds, won, w.american_odds)>>
                         \o bets
          /\ ret' = [op |-> "add_bet", val |-> None]
    /\ UNCHANGED <<estimation, np_random_state, strategyParams, bankroll,
                   bet_history, roi_initial_bankroll>>

add_bet ==
    /\ Len(bets) + Len(bet_history) < MaxBets
    /\ \E w \in Wagers, won \in BOOLEAN :
          /\ bets' = Append(bets, AddBetRecord(w.stake, w.odds, won,
                                               w.american_odds))
          /\ ret' = [op |-> "add_bet", val |-> None]
    /\ UNCHANGED <<estimation, np_random_state, strategyParams, bankroll,
                   bet_history, roi_initial_bankroll>>

\* mutation: the ratio is returned as a fraction, not as a percentage
CalculateRoi_fraction(bs) ==
    IF Len(bs) = 0 THEN Zero
    ELSE LET total_staked == RSum(Column(bs, "stake"))
             total_profit == RSum(Column(bs, "profit"))
         IN  IF total_staked = Zero THEN Zero
             ELSE RDiv(total_profit, total_staked)

\* mutation: the profit is averaged over the wagers, not over the stakes
CalculateRoi_perwager(bs) ==
    IF Len(bs) = 0 THEN Zero
    ELSE LET total_staked == RSum(Column(bs, "stake"))
             total_profit == RSum(Column(bs, "profit"))
         IN  IF total_staked = Zero THEN Zero
             ELSE RMul(RDiv(total_profit, R(Len(bs))), Hundred)

CalculateRoi(bs) ==
    IF Len(bs) = 0 THEN Zero
    ELSE LET total_staked == RSum(Column(bs, "stake"))
             total_profit == RSum(Column(bs, "profit"))
         IN  IF total_staked = Zero THEN Zero
             ELSE RMul(RDiv(total_profit, total_staked), Hundred)

calculate_roi ==
    /\ ret' = [op |-> "calculate_roi", val |-> CalculateRoi(bets)]
    /\ UNCHANGED <<estimation, np_random_state, strategyParams, bankroll,
                   bet_history, roi_initial_bankroll, bets>>

(***************************************************************************)
(* ROICalculator: vig estimate                                              *)
(***************************************************************************)
\* the truth value Python gives to bet['american_odds']
HasAmerican(bet) == bet.american_odds # NoAmerican /\ bet.american_odds[1] # 0

ImpliedProb(a) ==
    IF a > 0 THEN Q(100, a + 100) ELSE Q(Abs(a), Abs(a) + 100)

RMean(xs) == RDiv(RSum(xs), R(Len(xs)))

EstimateVig(bs) ==
    IF Len(bs) = 0 \/ ~ \E i \in 1..Len(bs) : HasAmerican(bs[i])
    THEN R(5)
    ELSE LET withOdds == SelectSeq(bs, HasAmerican)
             implied_probs == [i \in 1..Len(withOdds) |->
                                  ImpliedProb(withOdds[i].american_odds[1])]
             avg_implied == RMean(implied_probs)
             estimated_total == RMul(avg_implied, R(20))
             vig == IF RLt(One, estimated_total)
                    THEN RMul(RSub(estimated_total, One), Hundred)
                    ELSE R(5)
         IN  RMin(vig, R(10))

CalculateVigAdjustedRoi(bs) ==
    IF Len(bs) = 0 THEN Zero
    ELSE RSub(CalculateRoi(bs), EstimateVig(bs))

estimate_vig ==
    /\ ret' = [op |-> "estimate_vig", val |-> EstimateVig(bets)]
    /\ UNCHANGED <<estimation, np_random_state, strategyParams, bankroll,
                   bet_history, roi_initial_bankroll, bets>>

calculate_vig_adjusted_roi ==
    /\ ret' = [op |-> "calculate_vig_adjusted_roi",
               val |-> CalculateVigAdjustedRoi(bets)]
    /\ UNCHANGED <<estimation, np_random_state, strategyParams, bankroll,
                   bet_history, roi_initial_bankroll, bets>>

(***************************************************************************)
(* Per-wager returns, mean and sample variance as pandas computes them:     *)
(* x / 0 is nan (0 / 0) or an infinity, and mean() and std() skip nan.      *)
(***************************************************************************)
NpDiv(a, b) ==
    IF b # Zero THEN RDiv(a, b)
    ELSE IF a = Zero THEN NaN
    ELSE IF RLt(Zero, a) THEN Inf ELSE NegInf

Returns(profits, stakes) ==
    [i \in 1..Len(profits) |-> NpDiv(profits[i], stakes[i])]

NotNaN(x) == x # NaN

SkipNaN(xs) == SelectSeq(xs, NotNaN)

\* Series.mean(): nan when nothing is left after skipping nan
SeriesMean(xs) ==
    LET valid == SkipNaN(xs)
    IN  IF Len(valid) = 0 THEN NaN ELSE RMean(valid)

\* the square of Series.std(), ddof = 1: nan with fewer than two values
SeriesVar(xs) ==
    LET valid == SkipNaN(xs)
        mean == RMean(valid)
        sq == [i \in 1..Len(valid) |->
                  RMul(RSub(valid[i], mean), RSub(valid[i], mean))]
    IN  IF Len(valid) < 2 THEN NaN
        ELSE RDiv(RSum(sq), R(Len(valid) - 1))

\* the value  sqrt(scale_sq) * mean / sqrt(var)  kept in symbolic form
Ratio(scale_sq, mean, var) == [scale_sq |-> scale_sq, mean |-> mean, var |-> var]

PeriodsPerYear == 52
RiskFreeRate == Q(2, 100)

CalculateSharpe(returns, risk_free_rate) ==
    IF Len(returns) < 2 THEN Zero
    ELSE LET weekly_rf == RDiv(risk_free_rate, R(PeriodsPerYear))
             excess_returns == [i \in 1..Len(returns) |->
                                   IF returns[i] = NaN THEN NaN
                                   ELSE RSub(returns[i], weekly_rf)]
             var == SeriesVar(excess_returns)
         IN  IF var = Zero THEN Zero
             ELSE IF var = NaN THEN NaN
             ELSE Ratio(PeriodsPerYear, SeriesMean(excess_returns), var)

calculate_sharpe ==
    /\ ret' = [op |-> "calculate_sharpe",
               val |-> CalculateSharpe(Returns(Column(bets, "profit"),
                                               Column(bets, "stake")),
                                       RiskFreeRate)]
    /\ UNCHANGED <<estimation, np_random_state, strategyParams, bankroll,
                   bet_history, roi_initial_bankroll, bets>>

(***************************************************************************)
(* ROICalculator: maximum drawdown                                          *)
(***************************************************************************)
\* np.cumsum(profits) + initial
RECURSIVE CumSumFrom(_, _)
CumSumFrom(initial, profits) ==
    IF Len(profits) = 0 THEN <<>>
    ELSE LET front == CumSumFrom(initial, SubSeq(profits, 1, Len(profits) - 1))
             last == IF Len(front) = 0 THEN initial ELSE front[Len(front)]
         IN  Append(front, RAdd(last, profits[Len(profits)]))

\* np.maximum.accumulate
RECURSIVE RunningMax(_)
RunningMax(xs) ==
    IF Len(xs) = 0 THEN <<>>
    ELSE LET front == RunningMax(SubSeq(xs, 1, Len(xs) - 1))
         IN  IF Len(front) = 0 THEN <<xs[1]>>
             ELSE Append(front, RMax(front[Len(front)], xs[Len(xs)]))

\* np.min: nan if any element is nan, otherwise the least element
NpMin(xs) ==
    IF \E i \in 1..Len(xs) : xs[i] = NaN THEN NaN
    ELSE IF \E i \in 1..Len(xs) : xs[i] = NegInf THEN NegInf
    ELSE LET finite == {i \in 1..Len(xs) : IsFinite(xs[i])}
         IN  IF finite = {} THEN Inf
             ELSE xs[CHOOSE i \in finite :
                        \A j \in finite : RLe(xs[i], xs[j])]

\* abs(x) * 100 on floats
AbsTimes100(x) ==
    IF x = NaN THEN NaN
    ELSE IF ~IsFinite(x) THEN Inf
    ELSE RMul(RAbs(x), Hundred)

\* mutation: every point is measured against the maximum of the whole series
CalculateMaxDrawdown_globalmax(initial, profits) ==
    IF Len(profits) = 0 THEN Zero
    ELSE LET value == CumSumFrom(initial, profits)
             running_max == [i \in 1..Len(value) |->
                                RunningMax(value)[Len(value)]]
             drawdown == [i \in 1..Len(value) |->
                             NpDiv(RSub(value[i], running_max[i]),
                                   running_max[i])]
         IN  AbsTimes100(NpMin(drawdown))

CalculateMaxDrawdown(initial, profits) ==
    IF Len(profits) = 0 THEN Zero
    ELSE LET value == CumSumFrom(initial, profits)
             running_max == RunningMax(value)
             drawdown == [i \in 1..Len(value) |->
                             NpDiv(RSub(value[i], running_max[i]),
                                   running_max[i])]
         IN  AbsTimes100(NpMin(drawdown))

calculate_max_drawdown ==
    /\ ret' = [op |-> "calculate_max_drawdown",
               val |-> CalculateMaxDrawdown(roi_initial_bankroll,
                                            Column(bets, "profit"))]
    /\ UNCHANGED <<estimation, np_random_state, strategyParams, bankroll,
                   bet_history, roi_initial_bankroll, bets>>

(***************************************************************************)
(* ROICalculator: one-sided significance                                    *)
(***************************************************************************)
\* two-sided p-values scipy may report for a finite non-zero t statistic
P2Values == {Q(1, 100), Q(1, 2)}

\* stats.ttest_1samp(profits, 0): the possible (t_stat, p_value) pairs.  The
\* t statistic is kept by its sign (1, 0, -1), an infinity or nan; the
\* p-value of a finite non-zero statistic is any element of P2Values.
TTest1Samp(profits) ==
    LET mean == RMean(profits)
        var == SeriesVar(profits)
    IN  IF var = Zero
        THEN IF mean = Zero THEN {<<NaN, NaN>>}
             ELSE IF RLt(Zero, mean) THEN {<<Inf, Zero>>}
             ELSE {<<NegInf, Zero>>}
        ELSE IF mean = Zero THEN {<<Zero, One>>}
        ELSE {<<IF RLt(Zero, mean) THEN One ELSE RNeg(One), p2>> :
                 p2 \in P2Values}

\* mutation: half the two-sided p-value whatever the sign of the statistic
OneSided_halved(t_stat, p_value) ==
    IF p_value = NaN THEN NaN
    ELSE RDiv(p_value, R(2))

OneSided(t_stat, p_value) ==
    IF p_value = NaN THEN NaN
    ELSE IF RLt(Zero, t_stat) THEN RDiv(p_value, R(2))
    ELSE RSub(One, RDiv(p_value, R(2)))

\* mutation: the test is run on a single observation
CalculateSignificance_noguard(profits) ==
    IF Len(profits) < 1 THEN {One}
    ELSE {OneSided(tp[1], tp[2]) : tp \in TTest1Samp(profits)}

\* the values calculate_significance(profits) may return
CalculateSignificance(profits) ==
    IF Len(profits) < 2 THEN {One}
    ELSE {OneSided(tp[1], tp[2]) : tp \in TTest1Samp(profits)}

calculate_significance ==
    /\ \E p_value \in CalculateSignificance(Column(bets, "profit")) :
          ret' = [op |-> "calculate_significance", val |-> p_value]
    /\ UNCHANGED <<estimation, np_random_state, strategyParams, bankroll,
                   bet_history, roi_initial_bankroll, bets>>

(***************************************************************************)
(* ROICalculator: bootstrap confidence interval of the ROI                  *)
(***************************************************************************)
DefaultConfidence == Q(95, 100)
Confidences == {Zero, DefaultConfidence, Q(3, 2)}

\* the index vectors np.random.choice(n, n, replace=True) can draw
Resamples(n) == [1..n -> 1..n]

Pick(xs, indices) == [i \in 1..Len(xs) |-> xs[indices[i]]]

\* the values a resample can append to bootstrap_rois
BootstrapRois(profits, stakes) ==
    {RMul(RDiv(RSum(Pick(profits, ix)), RSum(Pick(stakes, ix))), Hundred) :
        ix \in {jx \in Resamples(Len(profits)) :
                   RLt(Zero, RSum(Pick(stakes, jx)))}}

\* np.percentile raises ValueError for a percentile outside [0, 100]
PercentileError == <<"ValueError">>

\* mutation: the two percentiles in any order
Percentiles_unordered(rois, confidence) ==
    IF RLt(One, confidence) THEN {PercentileError}
    ELSE IF confidence = Zero THEN {<<x, x>> : x \in rois}
    ELSE rois \X rois

\* the outcomes of the two np.percentile calls on a list of resampled ROIs,
\* at (1 - confidence) * 100 / 2 and (1 + confidence) * 100 / 2: an error when
\* confidence > 1, the same value twice when confidence = 0, otherwise any
\* two resampled values in order (values interpolated between two neighbours
\* of the sorted list are left out)
Percentiles(rois, confidence) ==
    IF RLt(One, confidence) THEN {PercentileError}
    ELSE IF confidence = Zero THEN {<<x, x>> : x \in rois}
    ELSE {lu \in rois \X rois : RLe(lu[1], lu[2])}

\* mutation: a ledger of fewer than two wagers gets the interval (0, 0)
CalculateRoiConfidenceInterval_zero(bs, profits, stakes, confidence) ==
    IF Len(profits) < 2
    THEN {<<Zero, Zero>>}
    ELSE LET bootstrap_rois == BootstrapRois(profits, stakes)
         IN  IF bootstrap_rois # {}
             THEN Percentiles(bootstrap_rois, confidence)
             ELSE {<<CalculateRoi(bs), CalculateRoi(bs)>>}

\* the values calculate_roi_confidence_interval may return
CalculateRoiConfidenceInterval(bs, profits, stakes, confidence) ==
    IF Len(profits) < 2
    THEN {<<CalculateRoi(bs), CalculateRoi(bs)>>}
    ELSE LET bootstrap_rois == BootstrapRois(profits, stakes)
         IN  IF bootstrap_rois # {}
             THEN Percentiles(bootstrap_rois, confidence)
             ELSE {<<CalculateRoi(bs), CalculateRoi(bs)>>}

calculate_roi_confidence_interval ==
    /\ \E confidence \in Confidences :
       \E ci \in CalculateRoiConfidenceInterval(bets, Column(bets, "profit"),
                                                Column(bets, "stake"),
                                                confidence) :
          ret' = [op |-> "calculate_roi_confidence_interval",
                  confidence |-> confidence, val |-> ci]
    /\ UNCHANGED <<estimation, np_random_state, strategyParams, bankroll,
                   bet_history, roi_initial_bankroll, bets>>

(***************************************************************************)
(* ROICalculator.calculate_metrics                                          *)
(***************************************************************************)
CountWon(rows) == Cardinality({i \in 1..Len(rows) : rows[i].won})

\* Series.max() / Series.min() of a non-empty column of finite values
SeriesMax(xs) == xs[CHOOSE i \in 1..Len(xs) : \A j \in 1..Len(xs) : RLe(xs[j], xs[i])]
SeriesMin(xs) == xs[CHOOSE i \in 1..Len(xs) : \A j \in 1..Len(xs) : RLe(xs[i], xs[j])]

IsWon(bet) == bet.won
IsLost(bet) == ~bet.won

\* the dictionaries calculate_metrics may return
CalculateMetrics(initial, bs) ==
    IF Len(bs) = 0
    THEN {[roi |-> Zero, total_bets |-> 0, win_rate |-> Zero,
           message |-> "No bets placed"]}
    ELSE LET profits == Column(bs, "profit")
             stakes == Column(bs, "stake")
             wins == SelectSeq(bs, IsWon)
             losses == SelectSeq(bs, IsLost)
             base ==
               [total_bets |-> Len(bs),
                winning_bets |-> CountWon(bs),
                win_rate |-> RMul(Q(CountWon(bs), Len(bs)), Hundred),
                total_staked |-> RSum(stakes),
                total_profit |-> RSum(profits),
                roi |-> CalculateRoi(bs),
                vig_adjusted_roi |-> CalculateVigAdjustedRoi(bs),
                avg_odds |-> RMean(Column(bs, "odds")),
                avg_stake |-> RMean(stakes),
                biggest_win |-> IF Len(wins) > 0
                                THEN SeriesMax(Column(wins, "profit"))
                                ELSE Zero,
                biggest_loss |-> IF Len(losses) > 0
                                 THEN SeriesMin(Column(losses, "profit"))
                                 ELSE Zero,
                sharpe_ratio |-> IF Len(bs) > 1
                                 THEN CalculateSharpe(Returns(profits, stakes),
                                                      RiskFreeRate)
                                 ELSE Zero,
                max_drawdown |-> CalculateMaxDrawdown(initial, profits)]
             keys == DOMAIN base \cup {"p_value", "is_significant",
                                       "roi_confidence_interval"}
         IN  {[k \in keys |->
                  CASE k = "p_value" -> p_value
                    [] k = "is_significant" -> RLt(p_value, Q(5, 100))
                    [] k = "roi_confidence_interval" -> ci
                    [] OTHER -> base[k]] :
                 p_value \in CalculateSignificance(profits),
                 ci \in CalculateRoiConfidenceInterval(bs, profits, stakes,
                                                       DefaultConfidence)}

\* mutation: the ledger is left in reverse order
calculate_metrics_reorder ==
    /\ \E metrics \in CalculateMetrics(roi_initial_bankroll, bets) :
          ret' = [op |-> "calculate_metrics", val |-> metrics]
    /\ bets' = [i \in 1..Len(bets) |-> bets[Len(bets) + 1 - i]]
    /\ UNCHANGED <<estimation, np_random_state, strategyParams, bankroll,
                   bet_history, roi_initial_bankroll>>

\* mutation: the result is the one of a call made before the latest wager
calculate_metrics_cached ==
    /\ \E metrics \in
             CalculateMetrics(roi_initial_bankroll,
                              IF Len(bets) > 1
                              THEN SubSeq(bets, 1, Len(bets) - 1)
                              ELSE bets) :
          ret' = [op |-> "calculate_metrics", val |-> metrics]
    /\ UNCHANGED <<estimation, np_random_state, strategyParams, bankroll,
                   bet_history, roi_initial_bankroll, bets>>

calculate_metrics ==
    /\ \E metrics \in CalculateMetrics(roi_initial_bankroll, bets) :
          ret' = [op |-> "calculate_metrics", val |-> metrics]
    /\ UNCHANGED <<estimation, np_random_state, strategyParams, bankroll,
                   bet_history, roi_initial_bankroll, bets>>

(***************************************************************************)
(* BettingStrategy.get_performance_metrics                                  *)
(***************************************************************************)
\* (cumulative - running_max) / initial_bankroll over the profit column
StrategyDrawdown(initial, profits) ==
    LET cumulative == CumSumFrom(Zero, profits)
        running_max == RunningMax(cumulative)
    IN  [i \in 1..Len(profits) |->
            NpDiv(RSub(cumulative[i], running_max[i]), initial)]

\* returns.mean() / returns.std() if returns.std() > 0 else 0
StrategySharpe(returns) ==
    LET var == SeriesVar(returns)
    IN  IF var # NaN /\ RLt(Zero, var)
        THEN Ratio(1, SeriesMean(returns), var)
        ELSE Zero

GetPerformanceMetrics(initial, current, history) ==
    IF Len(history) = 0 THEN <<>>
    ELSE LET profits == Column(history, "profit")
             amounts == Column(history, "amount")
             total_bets == Len(history)
             winning_bets == CountWon(history)
             total_staked == RSum(amounts)
             total_profit == RSum(profits)
             base ==
                [total_bets |-> total_bets,
                 winning_bets |-> winning_bets,
                 win_rate |-> Q(winning_bets, total_bets),
                 total_staked |-> total_staked,
                 total_profit |-> total_profit,
                 roi |-> IF RLt(Zero, total_staked)
                         THEN RMul(RDiv(total_profit, total_staked), Hundred)
                         ELSE Zero,
                 final_bankroll |-> current,
                 bankroll_growth |->
                     RMul(NpDiv(RSub(current, initial), initial), Hundred),
                 max_drawdown |->
                     AbsTimes100(NpMin(StrategyDrawdown(initial, profits)))]
         IN  IF total_bets > 1
             THEN [k \in DOMAIN base \cup {"sharpe_ratio"} |->
                      IF k = "sharpe_ratio"
                      THEN StrategySharpe(Returns(profits, amounts))
                      ELSE base[k]]
             ELSE base

get_performance_metrics ==
    /\ ret' = [op |-> "get_performance_metrics",
               val |-> GetPerformanceMetrics(initial_bankroll, bankroll,
                                             bet_history)]
    /\ UNCHANGED <<estimation, np_random_state, strategyParams, bankroll,
                   bet_history, roi_initial_bankroll, bets>>

Next ==
    \/ place_bet
    \/ add_bet
    \/ calculate_roi
    \/ estimate_vig
    \/ calculate_vig_adjusted_roi
    \/ calculate_sharpe
    \/ calculate_max_drawdown
    \/ calculate_significance
    \/ calculate_roi_confidence_interval
    \/ calculate_metrics
    \/ get_performance_metrics

Spec == Init /\ [][Next]_vars

\* a strategy that places wagers and is asked for edges in between
NextEdge == place_bet \/ calculate_edge

SpecEdge == Init /\ [][NextEdge]_vars

\* C22: calculate_edge returns (our_prob - market_prob)/market_prob when
\* market_prob > 0 and 0 when market_prob <= 0, and the call leaves bankroll
\* and bet_history as they were.
C22_EdgeContract ==
    [][ret'.op = "calculate_edge" =>
          /\ RLt(Zero, ret'.market_prob) =>
                ret'.val = RDiv(RSub(ret'.our_prob, ret'.market_prob),
                                ret'.market_prob)
          /\ RLe(ret'.market_prob, Zero) => ret'.val = Zero
          /\ bankroll' = bankroll
          /\ bet_history' = bet_history
      ]_vars

\* C22 witness: after a wager moved the bankroll, a call with our_prob below
\* a positive market_prob returned a negative edge.
C22_Witness ==
    /\ ret.op = "calculate_edge"
    /\ ret.our_prob = Q(1, 10) /\ ret.market_prob = Q(1, 5)
    /\ ret.val = Q(-1, 2)
    /\ Len(bet_history) > 0 /\ bankroll # initial_bankroll

(***************************************************************************)
(* Claims about the ledgers (checked under Spec).                           *)
(***************************************************************************)
\* C3: the bankroll equals initial_bankroll plus the profits of bet_history,
\* each profit being amount*(odds-1) for a win and -amount for a loss.
C3_BankrollIsInitialPlusProfits ==
    /\ bankroll = RAdd(initial_bankroll, RSum(Column(bet_history, "profit")))
    /\ \A i \in 1..Len(bet_history) :
          bet_history[i].profit =
              IF bet_history[i].won
              THEN RMul(bet_history[i].amount, RSub(bet_history[i].odds, One))
              ELSE RNeg(bet_history[i].amount)

\* C3 witness: a win and a loss have been settled and the bankroll moved.
C3_Witness ==
    /\ Len(bet_history) = 2
    /\ \E i, j \in 1..2 :
          /\ bet_history[i].won /\ ~bet_history[j].won
          /\ RLt(Zero, bet_history[j].amount)
    /\ bankroll # initial_bankroll

IsExtension(old, new) ==
    /\ Len(new) \in {Len(old), Len(old) + 1}
    /\ SubSeq(new, 1, Len(old)) = old

\* C4: both ledgers are append-only: a step leaves a ledger as it is or adds
\* one wager at its end, and add_bet / place_bet add exactly one.
C4_AppendOnly ==
    [][/\ IsExtension(bets, bets')
       /\ IsExtension(bet_history, bet_history')
       /\ ret'.op = "add_bet" => Len(bets') = Len(bets) + 1
       /\ ret'.op = "place_bet" => Len(bet_history') = Len(bet_history) + 1
      ]_vars

\* C4 witness: a wager was appended to a ledger that already held a different
\* one.
C4_Witness ==
    /\ ret.op = "add_bet"
    /\ Len(bets) = 2
    /\ bets[1] # bets[2]

AnalysisOps == {"calculate_roi", "calculate_vig_adjusted_roi", "estimate_vig",
                "calculate_metrics", "calculate_sharpe",
                "calculate_max_drawdown", "calculate_significance",
                "calculate_roi_confidence_interval",
                "get_performance_metrics"}

\* C5: the analysis operations leave both ledgers, both initial bankrolls and
\* the bankroll unchanged.
C5_AnalysisReadOnly ==
    [][ret'.op \in AnalysisOps =>
          /\ bets' = bets
          /\ bet_history' = bet_history
          /\ bankroll' = bankroll
          /\ initial_bankroll' = initial_bankroll
          /\ roi_initial_bankroll' = roi_initial_bankroll
      ]_vars

\* C5 witness: calculate_metrics has run on a ledger of two different wagers.
C5_Witness ==
    /\ ret.op = "calculate_metrics"
    /\ Len(bets) = 2
    /\ bets[1] # bets[2]
    /\ ret.val.total_bets = 2

\* C6 (as claimed): placing a wager with no actual winner leaves the bankroll
\* and the total profit of the ledger as they were.
C6_PendingLeavesBankroll ==
    [][(/\ ret'.op = "place_bet"
        /\ ~Truthy(ret'.val.actual_winner)
        /\ bet_history' = Append(bet_history, ret'.val))
          => /\ bankroll' = bankroll
             /\ RSum(Column(bet_history', "profit"))
                    = RSum(Column(bet_history, "profit"))
      ]_vars

\* C7 (as claimed): every wager of either ledger has stake > 0 and odds > 1.
C7_WagersValid ==
    /\ \A i \in 1..Len(bets) :
          RLt(Zero, bets[i].stake) /\ RLt(One, bets[i].odds)
    /\ \A i \in 1..Len(bet_history) :
          RLt(Zero, bet_history[i].amount) /\ RLt(One, bet_history[i].odds)

ExampleLedger ==
    <<AddBetRecord(R(50), R(15), FALSE, <<1400>>),
      AddBetRecord(R(40), R(12), TRUE, <<1100>>)>>

\* C8: a wager recorded by add_bet has profit stake*(odds-1) if won and
\* -stake if lost, and return = stake + profit; the ledger [50 at 15 lost,
\* 40 at 12 won] has profits [-50, 440].
C8_AddBetProfit ==
    /\ \A i \in 1..Len(bets) :
          /\ bets[i].profit =
                IF bets[i].won
                THEN RMul(bets[i].stake, RSub(bets[i].odds, One))
                ELSE RNeg(bets[i].stake)
          /\ bets[i]["return"] = RAdd(bets[i].stake, bets[i].profit)
    /\ (/\ Len(bets) = 2
        /\ Column(bets, "stake") = <<R(50), R(40)>>
        /\ Column(bets, "odds") = <<R(15), R(12)>>
        /\ Column(bets, "won") = <<FALSE, TRUE>>)
          => Column(bets, "profit") = <<R(-50), R(440)>>

\* C8 witness: the ledger of the example.
C8_Witness ==
    /\ bets = ExampleLedger
    /\ Column(bets, "profit") = <<R(-50), R(440)>>

\* C9: calculate_roi returns 0 on an empty or zero-stake ledger and otherwise
\* the value r with r * sum(stake) = 100 * sum(profit).
C9_RoiFormula ==
    ret.op = "calculate_roi" =>
        LET total_staked == RSum(Column(bets, "stake"))
            total_profit == RSum(Column(bets, "profit"))
        IN  IF Len(bets) = 0 \/ total_staked = Zero
            THEN ret.val = Zero
            ELSE RMul(ret.val, total_staked) = RMul(Hundred, total_profit)

\* C9 witness: calculate_roi returned 0 for a ledger that is not empty and
\* whose stakes are all zero.
C9_Witness ==
    /\ ret.op = "calculate_roi"
    /\ Len(bets) = 2
    /\ RSum(Column(bets, "stake")) = Zero
    /\ ret.val = Zero

Scales == {Q(1, 2), R(2), R(3)}

\* the ledger add_bet builds from the same wagers with every stake times c
ScaledLedger(bs, c) ==
    [i \in 1..Len(bs) |->
        AddBetRecord(RMul(bs[i].stake, c), bs[i].odds, bs[i].won,
                     bs[i].american_odds)]

\* C10: multiplying every stake by the same c > 0 leaves calculate_roi as it
\* was.
C10_RoiScaleInvariant ==
    \A c \in Scales : CalculateRoi(ScaledLedger(bets, c)) = CalculateRoi(bets)

\* C10 witness: a ledger with a win and a loss whose scaled copy differs from
\* it and has the same non-zero ROI.
C10_Witness ==
    /\ Len(bets) = 2
    /\ bets[1].won /\ ~bets[2].won
    /\ RLt(Zero, bets[1].stake) /\ RLt(Zero, bets[2].stake)
    /\ ScaledLedger(bets, R(3)) # bets
    /\ CalculateRoi(bets) # Zero
    /\ CalculateRoi(ScaledLedger(bets, R(3))) = CalculateRoi(bets)

(***************************************************************************)
(* Claims about significance and the bootstrap interval (checked under     *)
(* Spec).                                                                   *)
(***************************************************************************)
\* C12: calculate_significance returns 1 for a ledger of fewer than two
\* wagers, and calculate_metrics reports p_value 1 and is_significant false
\* for a ledger of one wager.
C12_SignificanceNeedsTwo ==
    /\ (ret.op = "calculate_significance" /\ Len(bets) < 2) => ret.val = One
    /\ (ret.op = "calculate_metrics" /\ Len(bets) = 1) =>
          /\ ret.val.p_value = One
          /\ ret.val.is_significant = FALSE

\* C12 witness: calculate_metrics has run on a ledger of one winning wager.
C12_Witness ==
    /\ ret.op = "calculate_metrics"
    /\ Len(bets) = 1
    /\ bets[1].won
    /\ ret.val.p_value = One
    /\ ret.val.is_significant = FALSE

\* C13: when the two-sided p-value p2 is a number, calculate_significance
\* returns p2/2 if the mean profit is positive and 1 - p2/2 otherwise, so with
\* a non-positive mean profit the result is >= 1/2 and calculate_metrics does
\* not report is_significant.
C13_OneSided ==
    LET profits == Column(bets, "profit")
    IN  /\ (ret.op = "calculate_significance" /\ Len(bets) >= 2
                /\ ret.val # NaN) =>
              /\ ret.val \in
                    {IF RLt(Zero, RMean(profits))
                     THEN RDiv(tp[2], R(2))
                     ELSE RSub(One, RDiv(tp[2], R(2))) :
                        tp \in TTest1Samp(profits)}
              /\ ~RLt(Zero, RMean(profits)) => FLe(Q(1, 2), ret.val)
        /\ (ret.op = "calculate_metrics" /\ Len(bets) >= 1
                /\ ~RLt(Zero, RMean(profits))) =>
              ret.val.is_significant = FALSE

\* C13 witness: two losing wagers of different stakes, and the result is
\* 1 - p2/2 for the two-sided p-value 1/100.
C13_Witness ==
    /\ ret.op = "calculate_significance"
    /\ Len(bets) = 2
    /\ RLt(RMean(Column(bets, "profit")), Zero)
    /\ SeriesVar(Column(bets, "profit")) # Zero
    /\ ret.val = Q(199, 200)

\* C14: for a ledger of fewer than two wagers the interval is (roi, roi),
\* roi being the ROI of the ledger (0 for an empty or zero-stake ledger).
C14_DegenerateInterval ==
    (ret.op = "calculate_roi_confidence_interval" /\ Len(bets) < 2) =>
        LET total_staked == RSum(Column(bets, "stake"))
            total_profit == RSum(Column(bets, "profit"))
        IN  /\ ret.val[1] = ret.val[2]
            /\ IF Len(bets) = 0 \/ total_staked = Zero
               THEN ret.val[1] = Zero
               ELSE RMul(ret.val[1], total_staked)
                        = RMul(Hundred, total_profit)

\* C14 witness: the interval of the ledger [40 at 12 won] is (1100, 1100).
C14_Witness ==
    /\ ret.op = "calculate_roi_confidence_interval"
    /\ Len(bets) = 1
    /\ bets[1].won /\ bets[1].stake = R(40)
    /\ ret.val = <<R(1100), R(1100)>>

\* C15 (as claimed): for any ledger and any confidence >= 0 the interval
\* returned satisfies lower <= calculate_roi() <= upper.
C15_IntervalContainsRoi ==
    ret.op = "calculate_roi_confidence_interval" =>
        /\ Len(ret.val) = 2
        /\ FLe(ret.val[1], CalculateRoi(bets))
        /\ FLe(CalculateRoi(bets), ret.val[2])

\* C15 (amended): for a confidence in [0, 1] the interval has lower <= upper;
\* it is (roi, roi) when the ledger has fewer than two wagers or no resample
\* has a positive stake, and otherwise both bounds and calculate_roi() lie
\* between the least and the greatest ROI of a resample.
C15_IntervalWithinResamples ==
    (ret.op = "calculate_roi_confidence_interval"
        /\ RLe(ret.confidence, One)) =>
        LET roi == CalculateRoi(bets)
            rois == BootstrapRois(Column(bets, "profit"),
                                  Column(bets, "stake"))
            InRange(x) == /\ \E lo \in rois : RLe(lo, x)
                          /\ \E hi \in rois : RLe(x, hi)
        IN  /\ Len(ret.val) = 2
            /\ FLe(ret.val[1], ret.val[2])
            /\ IF Len(bets) < 2 \/ rois = {}
               THEN ret.val = <<roi, roi>>
               ELSE InRange(ret.val[1]) /\ InRange(ret.val[2]) /\ InRange(roi)

\* C15 witness: the 95% interval of a ledger with a loss and a win runs from
\* the ROI of the resample of two losses to that of the resample of two wins.
C15_Witness ==
    /\ ret.op = "calculate_roi_confidence_interval"
    /\ ret.confidence = DefaultConfidence
    /\ bets = ExampleLedger
    /\ ret.val = <<R(-100), R(1100)>>
    /\ RLt(ret.val[1], CalculateRoi(bets))
    /\ RLt(CalculateRoi(bets), ret.val[2])

(***************************************************************************)
(* Claims about the metrics and the two ledgers together (checked under    *)
(* Spec).                                                                   *)
(***************************************************************************)
\* C24: the result of every calculate_metrics call describes the ledger as
\* it is at that call: total_bets is the number of wagers added so far, and
\* total_staked and total_profit are the sums over those wagers.
C24_MetricsFresh ==
    ret.op = "calculate_metrics" =>
        /\ ret.val.total_bets = Len(bets)
        /\ Len(bets) > 0 =>
              /\ ret.val.total_staked = RSum(Column(bets, "stake"))
              /\ ret.val.total_profit = RSum(Column(bets, "profit"))

\* C24 witness: a call made after a second wager was added counts both.
C24_Witness ==
    /\ ret.op = "calculate_metrics"
    /\ Len(bets) = 2
    /\ bets[1] # bets[2]
    /\ ret.val.total_bets = 2
    /\ ret.val.total_staked = RAdd(bets[1].stake, bets[2].stake)

\* a non-empty ledger of wagers with stake > 0 and odds > 1
ProperLedger ==
    /\ Len(bets) > 0
    /\ \A i \in 1..Len(bets) :
          RLt(Zero, bets[i].stake) /\ RLt(One, bets[i].odds)

\* x lies between 100 * min_i(profit_i/stake_i) and 100 * max_i(...)
WithinWagerReturns(x) ==
    /\ \E i \in 1..Len(bets) :
          RLe(RMul(Hundred, RDiv(bets[i].profit, bets[i].stake)), x)
    /\ \E i \in 1..Len(bets) :
          RLe(x, RMul(Hundred, RDiv(bets[i].profit, bets[i].stake)))

MaxProfits == 3

SeqsUpTo(S, n) == UNION {[1..k -> S] : k \in 0..n}

\* ROICalculator(initial_bankroll=...)
DrawdownBankrolls == {R(50), R(1000)}
\* profits of lost stakes of 50 and 40, of a void wager and of 40 won at 12
ProfitValues == {R(-50), R(-40), Zero, R(440)}

InitDrawdown ==
    /\ \E b \in DrawdownBankrolls : CalculatorInit(b)
    /\ StrategyInit(R(1000), Q(1, 4), Q(1, 20), Q(1, 20))
    /\ np_random_state = Unseeded
    /\ NoEstimation
    /\ ret = NoCall

\* calculate_max_drawdown(profits) called with an array of the caller
calculate_max_drawdown_of ==
    /\ \E profits \in SeqsUpTo(ProfitValues, MaxProfits) :
          ret' = [op |-> "calculate_max_drawdown", profits |-> profits,
                  val |-> CalculateMaxDrawdown(roi_initial_bankroll, profits)]
    /\ UNCHANGED <<estimation, np_random_state, strategyParams, bankroll,
                   bet_history, roi_initial_bankroll, bets>>

NextDrawdown == calculate_max_drawdown_of

SpecDrawdown == InitDrawdown /\ [][NextDrawdown]_vars

\* C11 (as claimed): calculate_max_drawdown is >= 0 for every profit sequence,
\* and is 0 when no profit of the sequence is negative (the cumulative profit
\* never declines).
C11_DrawdownNonNegative ==
    ret.op = "calculate_max_drawdown" =>
        /\ FLe(Zero, ret.val)
        /\ (\A i \in 1..Len(ret.profits) : RLe(Zero, ret.profits[i]))
              => ret.val = Zero

\* v_i: the bankroll after the first i profits
ValueAfter(initial, profits, i) == RAdd(initial, RSum(SubSeq(profits, 1, i)))

\* peak_i = max(v_1..v_i)
PeakToDate(initial, profits, i) ==
    LET j == CHOOSE j \in 1..i :
                 \A k \in 1..i : RLe(ValueAfter(initial, profits, k),
                                     ValueAfter(initial, profits, j))
    IN  ValueAfter(initial, profits, j)

\* (peak_i - v_i)/peak_i
DeclineFromPeak(initial, profits, i) ==
    RDiv(RSub(PeakToDate(initial, profits, i),
              ValueAfter(initial, profits, i)),
         PeakToDate(initial, profits, i))

\* C26: for a non-empty profit sequence whose peaks are not zero,
\* calculate_max_drawdown returns 100 times the largest (peak_i - v_i)/peak_i,
\* each point measured against the maximum up to that point.
C26_RunningMaximum ==
    (/\ ret.op = "calculate_max_drawdown"
     /\ Len(ret.profits) > 0
     /\ \A i \in 1..Len(ret.profits) :
           PeakToDate(roi_initial_bankroll, ret.profits, i) # Zero) =>
        \E i \in 1..Len(ret.profits) :
            /\ ret.val = RMul(Hundred, DeclineFromPeak(roi_initial_bankroll,
                                                       ret.profits, i))
            /\ \A k \in 1..Len(ret.profits) :
                  RLe(DeclineFromPeak(roi_initial_bankroll, ret.profits, k),
                      DeclineFromPeak(roi_initial_bankroll, ret.profits, i))

\* C26 witness: a trough of 4% that comes before the highest value of the
\* series is reported.
C26_Witness ==
    /\ ret.op = "calculate_max_drawdown"
    /\ roi_initial_bankroll = R(1000)
    /\ ret.profits = <<Zero, R(-40), R(440)>>
    /\ ret.val = R(4)

(***************************************************************************)
(* The bootstrap with a seeded generator (SpecBootstrap).  The draws of     *)
(* np.random.choice are a function of the state of numpy's global          *)
(* generator; a counter modulo NpModulus stands for the generator, the     *)
(* resample drawn in a state being the index vector the state spells in    *)
(* base n.  Percentiles are computed as np.percentile does, by linear      *)
(* interpolation in the sorted list.                                        *)
(***************************************************************************)
NpModulus == 4
\* values of the n_bootstrap argument
NBootstraps == {2, 3}

\* np.random.seed(seed), called by the user of the calculator
np_random_seed ==
    /\ \E seed \in 0..(NpModulus - 1) : np_random_state' = seed
    /\ UNCHANGED <<estimation, strategyParams, bankroll, bet_history,
                   roi_initial_bankroll, bets, ret>>

\* np.random.choice(n, size=n, replace=True) in a generator state
NpRandomChoice(state, n) ==
    [i \in 1..n |-> ((state \div (n ^ (i - 1))) % n) + 1]

\* the generator state after one np.random.choice call
NpRandomAdvance(state) == (state + 1) % NpModulus

\* the list bootstrap_rois after n_bootstrap rounds of the loop
RECURSIVE BootstrapLoop(_, _, _, _)
BootstrapLoop(state, profits, stakes, n_bootstrap) ==
    IF n_bootstrap = 0 THEN <<>>
    ELSE LET indices == NpRandomChoice(state, Len(profits))
             sample_profits == Pick(profits, indices)
             sample_stakes == Pick(stakes, indices)
             rest == BootstrapLoop(NpRandomAdvance(state), profits, stakes,
                                   n_bootstrap - 1)
         IN  IF RLt(Zero, RSum(sample_stakes))
             THEN <<RMul(RDiv(RSum(sample_profits), RSum(sample_stakes)),
                         Hundred)>> \o rest
             ELSE rest

RECURSIVE Sorted(_)
Sorted(xs) ==
    IF Len(xs) = 0 THEN <<>>
    ELSE LET rest == Sorted(Tail(xs))
             k == Cardinality({i \in 1..Len(rest) : RLt(rest[i], xs[1])})
         IN  SubSeq(rest, 1, k) \o <<xs[1]>> \o SubSeq(rest, k + 1, Len(rest))

\* np.percentile(xs, q) for 0 <= q <= 100 and a non-empty list
NpPercentile(xs, q) ==
    LET sorted == Sorted(xs)
        pos == RMul(RDiv(q, Hundred), R(Len(xs) - 1))
        lo == pos[1] \div pos[2]
        frac == RSub(pos, R(lo))
    IN  IF frac = Zero THEN sorted[lo + 1]
        ELSE RAdd(sorted[lo + 1],
                  RMul(frac, RSub(sorted[lo + 2], sorted[lo + 1])))

\* calculate_roi_confidence_interval(confidence, n_bootstrap) when the
\* generator is in the given state
SeededInterval(state, bs, profits, stakes, confidence, n_bootstrap) ==
    IF Len(profits) < 2
    THEN <<CalculateRoi(bs), CalculateRoi(bs)>>
    ELSE LET bootstrap_rois == BootstrapLoop(state, profits, stakes,
                                             n_bootstrap)
         IN  IF Len(bootstrap_rois) > 0
             THEN IF RLt(One, confidence) THEN PercentileError
                  ELSE <<NpPercentile(bootstrap_rois,
                             RDiv(RMul(RSub(One, confidence), Hundred), R(2))),
                         NpPercentile(bootstrap_rois,
                             RDiv(RMul(RAdd(One, confidence), Hundred), R(2)))>>
             ELSE <<CalculateRoi(bs), CalculateRoi(bs)>>

\* the generator state after the call
SeededAdvance(state, profits, n_bootstrap) ==
    IF Len(profits) < 2 THEN state
    ELSE (state + n_bootstrap) % NpModulus

\* mutation: the resamples come from a generator of the method's own, which
\* np.random.seed does not reach
calculate_roi_confidence_interval_entropy ==
    /\ np_random_state # Unseeded
    /\ \E confidence \in Confidences, n_bootstrap \in NBootstraps,
          own \in 0..(NpModulus - 1) :
          ret' = [op |-> "calculate_roi_confidence_interval",
                  confidence |-> confidence, n_bootstrap |-> n_bootstrap,
                  np_random_state |-> np_random_state,
                  val |-> SeededInterval(own, bets,
                                         Column(bets, "profit"),
                                         Column(bets, "stake"),
                                         confidence, n_bootstrap)]
    /\ UNCHANGED <<estimation, np_random_state, strategyParams, bankroll,
                   bet_history, roi_initial_bankroll, bets>>

\* calculate_roi_confidence_interval after np.random.seed; ret records the
\* generator state the call started in
calculate_roi_confidence_interval_seeded ==
    /\ np_random_state # Unseeded
    /\ \E confidence \in Confidences, n_bootstrap \in NBootstraps :
          /\ ret' = [op |-> "calculate_roi_confidence_interval",
                     confidence |-> confidence, n_bootstrap |-> n_bootstrap,
                     np_random_state |-> np_random_state,
                     val |-> SeededInterval(np_random_state, bets,
                                            Column(bets, "profit"),
                                            Column(bets, "stake"),
                                            confidence, n_bootstrap)]
          /\ np_random_state' = SeededAdvance(np_random_state,
                                              Column(bets, "profit"),
                                              n_bootstrap)
    /\ UNCHANGED <<estimation, strategyParams, bankroll, bet_history,
                   roi_initial_bankroll, bets>>

NextBootstrap ==
    \/ add_bet
    \/ np_random_seed
    \/ calculate_roi_confidence_interval_seeded

SpecBootstrap == Init /\ [][NextBootstrap]_vars

WinRates == {Zero, Q(1, 10), Q(1, 4), Q(1, 2), One}
AvgOdds == {One, R(2), R(4), R(10)}
PowerConfidences == {Q(9, 10), Q(95, 100)}
Powers == {Q(1, 2), Q(8, 10), Q(9, 10)}

\* stats.norm.ppf to two decimals, at the arguments the inputs lead to
NormPpf(p) ==
    CASE p = Q(1, 2) -> Zero
      [] p = Q(8, 10) -> Q(84, 100)
      [] p = Q(9, 10) -> Q(128, 100)
      [] p = Q(95, 100) -> Q(164, 100)
      [] p = Q(975, 1000) -> Q(196, 100)

\* np.ceil of a finite value, as an integer
Ceil(x) == -((-x[1]) \div x[2])

\* the outcome of minimum_bets_for_significance: [value |-> n] when it
\* returns n, [exception |-> e] when it raises e.  n is
\* ((z_alpha + z_beta) / effect_size) ** 2 with effect_size the expected
\* profit over the square root of the variance, computed here as
\* (z_alpha + z_beta)^2 * variance / expected_profit^2
MinimumBetsForSignificance(win_rate, avg_odds, confidence, power) ==
    LET expected_profit_per_bet ==
            RSub(RMul(win_rate, RSub(avg_odds, One)), RSub(One, win_rate))
        variance ==
            RAdd(RMul(win_rate,
                      RMul(RSub(avg_odds, One), RSub(avg_odds, One))),
                 RSub(One, win_rate))
        alpha == RSub(One, confidence)
        z_alpha == NormPpf(RSub(One, RDiv(alpha, R(2))))
        z_beta == NormPpf(power)
        z == RAdd(z_alpha, z_beta)
    IN  IF variance = Zero THEN [value |-> 100]
        ELSE IF expected_profit_per_bet = Zero
        THEN \* effect_size is 0.0: n is inf (nan if z is 0 as well)
             IF z = Zero THEN [exception |-> "ValueError"]
             ELSE [exception |-> "OverflowError"]
        ELSE LET n == RDiv(RMul(RMul(z, z), variance),
                           RMul(expected_profit_per_bet,
                                expected_profit_per_bet))
             IN  [value |-> IF Ceil(n) > 30 THEN Ceil(n) ELSE 30]

minimum_bets_for_significance ==
    /\ \E win_rate \in WinRates, avg_odds \in AvgOdds,
          confidence \in PowerConfidences, power \in Powers :
          ret' = [op |-> "minimum_bets_for_significance",
                  win_rate |-> win_rate, avg_odds |-> avg_odds,
                  confidence |-> confidence, power |-> power,
                  val |-> MinimumBetsForSignificance(win_rate, avg_odds,
                                                     confidence, power)]
    /\ UNCHANGED <<estimation, np_random_state, strategyParams, bankroll,
                   bet_history, roi_initial_bankroll, bets>>

NextMinimumBets == minimum_bets_for_significance

SpecMinimumBets == Init /\ [][NextMinimumBets]_vars

\* C17 (as claimed): for win_rate in [0, 1], avg_odds >= 1 and confidence and
\* power in (0, 1), minimum_bets_for_significance returns, without raising,
\* an integer >= 30, and it returns 100 when the variance
\* win_rate * (avg_odds - 1)^2 + (1 - win_rate) is zero.
C17_MinimumBetsTotal ==
    ret.op = "minimum_bets_for_significance" =>
        /\ DOMAIN ret.val = {"value"}
        /\ ret.val.value >= 30
        /\ (ret.win_rate = One /\ ret.avg_odds = One) => ret.val.value = 100

(***************************************************************************)
(* The probability estimators of strategy.py (SpecEstimators).  Their      *)
(* results are compared for equality, so their arithmetic is floating      *)
(* point: every operation rounds its exact result to the nearest value of  *)
(* FloatBits significant bits, ties to even (FloatBits stands for the 53   *)
(* bits of a double; the exponent is not limited).                          *)
(***************************************************************************)
FloatBits == 6
MaxPlayers == 2

Pow2(e) == IF e >= 0 THEN <<2 ^ e, 1>> ELSE <<1, 2 ^ (-e)>>

\* the e with 2^e <= a < 2^(e+1), for a > 0, searched from a first guess
RECURSIVE FloatExponent(_, _)
FloatExponent(a, e) ==
    IF RLt(a, Pow2(e)) THEN FloatExponent(a, e - 1)
    ELSE IF RLe(Pow2(e + 1), a) THEN FloatExponent(a, e + 1)
    ELSE e

\* the integer nearest to x >= 0, ties to even
RoundHalfEven(x) ==
    LET q == x[1] \div x[2]
        r == x[1] % x[2]
    IN  IF 2 * r > x[2] \/ (2 * r = x[2] /\ q % 2 = 1) THEN q + 1 ELSE q

\* the float nearest to the rational x
Fl(x) ==
    IF x[1] = 0 THEN Zero
    ELSE LET a == RAbs(x)
             e == FloatExponent(a, 0)
             m == RoundHalfEven(RMul(a, Pow2(FloatBits - 1 - e)))
             y == RMul(R(m), Pow2(e - FloatBits + 1))
         IN  IF x[1] < 0 THEN RNeg(y) ELSE y

\* the float literal n/d, e.g. Float(2, 100) for 0.02
Float(n, d) == Fl(Q(n, d))
FAdd(a, b) == Fl(RAdd(a, b))
FMul(a, b) == Fl(RMul(a, b))
FDiv(a, b) == Fl(RDiv(a, b))

\* sum(xs) of Python: left to right from 0
RECURSIVE FSum(_)
FSum(xs) ==
    IF Len(xs) = 0 THEN Zero
    ELSE FAdd(FSum(SubSeq(xs, 1, Len(xs) - 1)), xs[Len(xs)])

\* dict.get(key, default): an absent key is <<>>, a present one <<value>>
Get(opt, default) == IF opt = <<>> THEN default ELSE opt[1]

\* player dictionaries of tournament_data['players']
PlayerCatalogue ==
    {[name |-> "p1", base_probability |-> <<>>, wind_performance |-> <<One>>,
      recent_finishes |-> <<1, 3>>, course_history |-> <<1>>,
      standard_performance |-> <<>>],
     [name |-> "p2", base_probability |-> <<Float(1, 10)>>,
      wind_performance |-> <<>>, recent_finishes |-> <<>>,
      course_history |-> <<>>, standard_performance |-> <<>>],
     [name |-> "p3", base_probability |-> <<Float(1, 100)>>,
      wind_performance |-> <<>>, recent_finishes |-> <<9, 9, 9, 9, 9, 1>>,
      course_history |-> <<1, 4>>, standard_performance |-> <<Zero>>],
     [name |-> "p4", base_probability |-> <<Float(-5, 100)>>,
      wind_performance |-> <<>>, recent_finishes |-> <<2>>,
      course_history |-> <<>>, standard_performance |-> <<R(-1)>>],
     [name |-> "p1", base_probability |-> <<Zero>>,
      wind_performance |-> <<>>, recent_finishes |-> <<>>,
      course_history |-> <<3>>, standard_performance |-> <<Float(9, 10)>>]}

\* weather['avg_wind_mph']
WindSpeeds == {10, 20}

TournamentData ==
    [players : SeqsUpTo(PlayerCatalogue, MaxPlayers), avg_wind_mph : WindSpeeds]

WindThreshold == 15
LookbackTournaments == 5
RecencyWeights ==
    <<Float(35, 100), Float(25, 100), Float(20, 100), Float(15, 100),
      Float(5, 100)>>

\* WeatherEdgeStrategy: the value stored for a player before normalising
WeatherScore(player, wind_speed) ==
    LET base_prob == Get(player.base_probability, Float(2, 100))
    IN  IF wind_speed > WindThreshold
        THEN LET wind_performance == Get(player.wind_performance, Zero)
                 adjustment == FMul(wind_performance, Float(1, 10))
             IN  FMul(base_prob, FAdd(One, adjustment))
        ELSE base_prob

\* FormMomentumStrategy: <<weighted_sum, weight_total>> after the first k
\* rounds of the loop over recent_finishes
RECURSIVE FormSums(_, _)
FormSums(recent_finishes, k) ==
    IF k = 0 THEN <<Zero, Zero>>
    ELSE LET before == FormSums(recent_finishes, k - 1)
         IN  IF k - 1 < Len(RecencyWeights)
             THEN LET weight == RecencyWeights[k]
                      score == FDiv(One, R(recent_finishes[k] + 1))
                  IN  <<FAdd(before[1], FMul(score, weight)),
                        FAdd(before[2], weight)>>
             ELSE before

FormScore(player) ==
    LET all == player.recent_finishes
        recent_finishes ==
            SubSeq(all, 1, IF Len(all) < LookbackTournaments
                           THEN Len(all) ELSE LookbackTournaments)
    IN  IF Len(recent_finishes) = 0 THEN Float(1, 100)
        ELSE LET sums == FormSums(recent_finishes, Len(recent_finishes))
             IN  IF RLt(Zero, sums[2]) THEN FDiv(sums[1], sums[2]) ELSE Zero

RECURSIVE IntSum(_)
IntSum(xs) == IF Len(xs) = 0 THEN 0 ELSE xs[1] + IntSum(Tail(xs))

\* CourseFitStrategy with course_type 'standard'
CourseScore(player) ==
    LET course_history == player.course_history
        similar_course_performance ==
            Get(player.standard_performance, Float(5, 10))
        course_score ==
            IF Len(course_history) > 0
            THEN LET avg_finish == Fl(Q(IntSum(course_history),
                                        Len(course_history)))
                 IN  FDiv(One, FAdd(avg_finish, One))
            ELSE Float(2, 100)
    IN  FAdd(FMul(course_score, Float(7, 10)),
             FMul(similar_course_performance, Float(3, 10)))

Estimators == {"weather", "form", "course_fit"}

Score(strategy, player, data) ==
    CASE strategy = "weather" -> WeatherScore(player, data.avg_wind_mph)
      [] strategy = "form" -> FormScore(player)
      [] strategy = "course_fit" -> CourseScore(player)

\* the keys of the probabilities dictionary in insertion order
RECURSIVE Keys(_)
Keys(players) ==
    IF Len(players) = 0 THEN <<>>
    ELSE LET front == Keys(SubSeq(players, 1, Len(players) - 1))
             name == players[Len(players)].name
         IN  IF \E i \in 1..Len(front) : front[i] = name THEN front
             ELSE Append(front, name)

\* the probabilities dictionary before normalising: a later player of the
\* same name overwrites an earlier one
RawScores(strategy, data) ==
    LET players == data.players
        Last(name) == CHOOSE i \in 1..Len(players) :
                         /\ players[i].name = name
                         /\ \A j \in (i + 1)..Len(players) :
                               players[j].name # name
    IN  [name \in {players[i].name : i \in 1..Len(players)} |->
            Score(strategy, players[Last(name)], data)]

\* total = sum(d.values()); d = {k: v/total} if total > 0
Normalize(keys, d) ==
    LET total == FSum([i \in 1..Len(keys) |-> d[keys[i]]])
    IN  IF RLt(Zero, total)
        THEN [k \in DOMAIN d |-> FDiv(d[k], total)]
        ELSE d

\* a BettingStrategy subclass of the caller whose calculate_probabilities
\* puts everything on one player, whatever the field
FavouriteEstimate == [name \in {"p1"} |-> One]

\* calculate_probabilities of a sub-estimator
Probabilities(strategy, data) ==
    IF strategy = "favourite" THEN FavouriteEstimate
    ELSE Normalize(Keys(data.players), RawScores(strategy, data))

\* CombinedStrategy.__init__: an absent weights argument is <<>>, a given
\* list w is <<w>>
StrategyLists ==
    UNION {[1..n -> Estimators] : n \in 1..2}
        \cup {<<"weather", "favourite">>, <<"favourite", "form">>}
WeightArguments == {<<>>, <<<<Float(3, 4), Float(1, 4)>>>>}

DefaultWeights(n) == [i \in 1..n |-> Fl(Q(1, n))]

CombinedWeights(strategies, weights_arg) ==
    IF weights_arg = <<>> THEN DefaultWeights(Len(strategies))
    ELSE weights_arg[1]

\* mutation: the weight is added to the sub-estimate
Contribution_addweight(probs, player, weight) ==
    FAdd(IF player \in DOMAIN probs THEN probs[player] ELSE Zero, weight)

\* probs.get(player, 0) * self.weights[i]
Contribution(probs, player, weight) ==
    FMul(IF player \in DOMAIN probs THEN probs[player] ELSE Zero, weight)

\* weighted_prob after the first k sub-estimates
RECURSIVE WeightedProb(_, _, _, _)
WeightedProb(all_probs, weights, player, k) ==
    IF k = 0 THEN Zero
    ELSE FAdd(WeightedProb(all_probs, weights, player, k - 1),
              Contribution(all_probs[k], player, weights[k]))

AllProbs(strategies, data) ==
    [i \in 1..Len(strategies) |-> Probabilities(strategies[i], data)]

\* mutation: a player missing from a sub-estimate is left out
CombinedRaw_excluding(all_probs, weights) ==
    [player \in {name \in DOMAIN all_probs[1] :
                    \A i \in 1..Len(all_probs) : name \in DOMAIN all_probs[i]}
        |-> WeightedProb(all_probs, weights, player, Len(all_probs))]

\* the dictionary combined before normalising, from the list all_probs of
\* the sub-estimates
CombinedRaw(all_probs, weights) ==
    [player \in UNION {DOMAIN all_probs[i] : i \in 1..Len(all_probs)} |->
        WeightedProb(all_probs, weights, player, Len(all_probs))]

\* the orders in which a set of names can be iterated
Orders(S) ==
    {f \in [1..Cardinality(S) -> S] :
        \A i, j \in 1..Cardinality(S) : i # j => f[i] # f[j]}

\* the dictionaries CombinedStrategy.calculate_probabilities may return: the
\* keys of combined are inserted in the iteration order of the set
\* all_players, which is any order
CombinedProbabilities(strategies, weights, data) ==
    UNION {{Normalize(order, combined) : order \in Orders(DOMAIN combined)} :
             combined \in {CombinedRaw(all_probs, weights) :
                             all_probs \in {AllProbs(strategies, data)}}}

\* the strategy objects: a single estimator, or a CombinedStrategy with its
\* fields strategies and weights
EstimatorObjects ==
    {[kind |-> k] : k \in Estimators}
        \cup {[kind |-> "combined", strategies |-> ss, weights_arg |-> wa,
               weights |-> CombinedWeights(ss, wa)] :
                 ss \in StrategyLists, wa \in WeightArguments}

InitEstimators ==
    /\ StrategyInit(R(1000), Q(1, 4), Q(1, 20), Q(1, 20))
    /\ CalculatorInit(R(1000))
    /\ np_random_state = Unseeded
    /\ estimator \in EstimatorObjects
    /\ tournament_data \in TournamentData
    /\ ret = NoCall

\* calculate_probabilities of WeatherEdgeStrategy, FormMomentumStrategy and
\* CourseFitStrategy
calculate_probabilities ==
    /\ estimator.kind \in Estimators
    /\ ret' = [op |-> "calculate_probabilities",
               val |-> Probabilities(estimator.kind, tournament_data)]
    /\ UNCHANGED <<estimation, np_random_state, strategyParams, bankroll,
                   bet_history, roi_initial_bankroll, bets>>

\* CombinedStrategy.calculate_probabilities
calculate_probabilities_combined ==
    /\ estimator.kind = "combined"
    /\ \E probabilities \in
             CombinedProbabilities(estimator.strategies, estimator.weights,
                                   tournament_data) :
          ret' = [op |-> "calculate_probabilities", val |-> probabilities]
    /\ UNCHANGED <<estimation, np_random_state, strategyParams, bankroll,
                   bet_history, roi_initial_bankroll, bets>>

NextEstimators ==
    \/ calculate_probabilities
    \/ calculate_probabilities_combined

SpecEstimators == InitEstimators /\ [][NextEstimators]_vars

(***************************************************************************)
(* Claims about the estimators (checked under SpecEstimators).              *)
(***************************************************************************)
\* the rounding error allowed to a result of a few operations: 8 units in
\* the last place of 1.0
Tolerance == Pow2(3 - FloatBits)

RECURSIVE SumOver(_, _)
SumOver(d, S) ==
    IF S = {} THEN Zero
    ELSE LET k == CHOOSE x \in S : TRUE
         IN  RAdd(d[k], SumOver(d, S \ {k}))

Near(a, b) == RLe(RAbs(RSub(a, b)), Tolerance)

\* the scores of the last call before normalising
RawOfCall ==
    IF estimator.kind = "combined"
    THEN CombinedRaw(AllProbs(estimator.strategies, tournament_data),
                     estimator.weights)
    ELSE RawScores(estimator.kind, tournament_data)

\* C18 (as claimed): for a non-empty player list with at least one positive
\* raw score, the distribution returned by any of the four estimators sums
\* to 1 (within the tolerance).
C18_SumsToOne ==
    (/\ ret.op = "calculate_probabilities"
     /\ Len(tournament_data.players) > 0
     /\ \E k \in DOMAIN RawOfCall : RLt(Zero, RawOfCall[k]))
        => Near(SumOver(ret.val, DOMAIN ret.val), One)

\* what the first sub-estimator of a CombinedStrategy returns
SubEstimate == Probabilities(estimator.strategies[1], tournament_data)

\* the precondition of C19: two estimators, default weights, the same
\* sub-estimate from both
SameTwice ==
    /\ ret.op = "calculate_probabilities"
    /\ estimator.kind = "combined"
    /\ Len(estimator.strategies) = 2
    /\ estimator.weights_arg = <<>>
    /\ SubEstimate = Probabilities(estimator.strategies[2], tournament_data)

\* C19 (as claimed): CombinedStrategy of two estimators with default weights
\* which both return the same distribution returns exactly that distribution.
C19_CombinedReproduces ==
    SameTwice => ret.val = SubEstimate

\* C19 (amended): it returns a distribution over the same players that has
\* the very same values unless the floating-point sum of the sub-estimate,
\* taken in some order, is positive and not 1; and when the sub-estimate has
\* no negative value, each probability is within the tolerance of it.
C19_CombinedReproducesRounded ==
    SameTwice =>
        LET sub == SubEstimate
        IN  /\ DOMAIN ret.val = DOMAIN sub
            /\ \/ ret.val = sub
               \/ \E order \in Orders(DOMAIN sub) :
                     LET total == FSum([i \in 1..Len(order) |-> sub[order[i]]])
                     IN  RLt(Zero, total) /\ total # One
            /\ (\A k \in DOMAIN sub : RLe(Zero, sub[k]))
                  => \A k \in DOMAIN sub : Near(ret.val[k], sub[k])

\* C19 witness: both estimators returned the same distribution over two
\* players, without a negative value, and the combined result differs from
\* it by rounding.
C19_Witness ==
    /\ SameTwice
    /\ Cardinality(DOMAIN ret.val) = 2
    /\ \A k \in DOMAIN SubEstimate : RLe(Zero, SubEstimate[k])
    /\ ret.val # SubEstimate
    /\ \A k \in DOMAIN ret.val : Near(ret.val[k], SubEstimate[k])

\* the players seen in some sub-estimate of the last call
SeenPlayers(all_probs) == UNION {DOMAIN all_probs[i] : i \in 1..Len(all_probs)}

\* the sum over the sub-estimators i of p_i(player) * weight_i, with
\* p_i(player) = 0 where the player is absent
WeightedScore(all_probs, weights, player) ==
    FSum([i \in 1..Len(all_probs) |->
             FMul(IF player \in DOMAIN all_probs[i]
                  THEN all_probs[i][player] ELSE Zero,
                  weights[i])])

MaxRows == 2

RequiredCols == {"tournament", "date", "player", "outright_odds"}

ColumnSets ==
    {RequiredCols \cup {"bookmaker"}, RequiredCols,
     RequiredCols \ {"outright_odds"}, RequiredCols \ {"date", "player"}}

\* "tbd" is a date cell pd.to_datetime cannot parse
CsvRows ==
    {[tournament |-> "t1", date |-> "2024-04-11", player |-> "p1",
      outright_odds |-> R(1400)],
     [tournament |-> "t1", date |-> "2024-04-11", player |-> "p2",
      outright_odds |-> R(-200)],
     [tournament |-> "t1", date |-> "2024-04-11", player |-> "",
      outright_odds |-> NaN],
     [tournament |-> "t1", date |-> "", player |-> "p1",
      outright_odds |-> R(1400)],
     [tournament |-> "t1", date |-> "tbd", player |-> "p2",
      outright_odds |-> R(1400)]}

CsvFiles == [columns : ColumnSets, rows : SeqsUpTo(CsvRows, MaxRows)]

\* _american_to_decimal on an element of a DataFrame column; the None it
\* returns for a missing value is nan in the column, and numpy's division of
\* 100 by zero is inf
AmericanToDecimal(odds) ==
    IF odds = NaN THEN NaN
    ELSE IF RLt(Zero, odds) THEN FAdd(FDiv(odds, Hundred), One)
    ELSE IF odds = Zero THEN Inf
    ELSE FAdd(FDiv(Hundred, RAbs(odds)), One)

\* mutation: odds of exactly 1 are given the probability 1
DecimalToProbability_atone(decimal_odds) ==
    IF decimal_odds = NaN \/ RLt(decimal_odds, One) THEN NaN
    ELSE IF decimal_odds = Inf THEN Zero
    ELSE FDiv(One, decimal_odds)

\* _decimal_to_probability
DecimalToProbability(decimal_odds) ==
    IF decimal_odds = NaN \/ RLe(decimal_odds, One) THEN NaN
    ELSE IF decimal_odds = Inf THEN Zero
    ELSE FDiv(One, decimal_odds)

\* pd.DataFrame()
EmptyFrame == [columns |-> {}, rows |-> <<>>]

\* the body of the try block of import_csv
ImportCsvTry(file) ==
    LET missing_cols == RequiredCols \ file.columns
    IN  IF missing_cols # {}
        THEN [exception |-> "ValueError", message |-> missing_cols]
        ELSE IF \E i \in 1..Len(file.rows) : file.rows[i].date = "tbd"
        THEN [exception |-> "ValueError", message |-> {"date"}]
        ELSE [value |->
                [columns |-> file.columns
                                \cup {"outright_decimal", "implied_prob"},
                 rows |->
                    [i \in 1..Len(file.rows) |->
                        LET row == file.rows[i]
                            outright_decimal ==
                                AmericanToDecimal(row.outright_odds)
                        IN  [tournament |-> row.tournament,
                             date |-> IF row.date = "" THEN "NaT"
                                      ELSE row.date,
                             player |-> row.player,
                             outright_odds |-> row.outright_odds,
                             outright_decimal |-> outright_decimal,
                             implied_prob |->
                                 DecimalToProbability(outright_decimal)]]]]

\* import_csv: except Exception prints the error and returns an empty frame
ImportCsv(file) ==
    LET outcome == ImportCsvTry(file)
    IN  IF "exception" \in DOMAIN outcome
        THEN [value |-> EmptyFrame]
        ELSE outcome

import_csv ==
    /\ \E file \in CsvFiles :
          ret' = [op |-> "import_csv", file |-> file,
                  val |-> ImportCsv(file)]
    /\ UNCHANGED <<estimation, np_random_state, strategyParams, bankroll,
                   bet_history, roi_initial_bankroll, bets>>

NextImport == import_csv

SpecImport == Init /\ [][NextImport]_vars

\* C20 (as claimed): when the file lacks a required column import_csv raises
\* an error that names the missing columns, and when it returns a frame the
\* frame has every row of the file.
C20_StructuralFaultRaises ==
    ret.op = "import_csv" =>
        /\ RequiredCols \ ret.file.columns # {} =>
              /\ "exception" \in DOMAIN ret.val
              /\ ret.val.message = RequiredCols \ ret.file.columns
        /\ "value" \in DOMAIN ret.val =>
              Len(ret.val.value.rows) = Len(ret.file.rows)

(***************************************************************************)
(* The odds conversions called on their own (SpecOdds).                    *)
(***************************************************************************)
\* American odds: a missing value, favourites, zero and outsiders
AmericanOdds ==
    {NaN, R(-800), R(-200), R(-100), Zero, R(100), R(400), R(1600)}

\* decimal odds: a missing value, sixteenths below 4 and whole numbers from 4
DecimalOdds ==
    {NaN} \cup {Q(n, 16) : n \in 0..63} \cup {R(n) : n \in 4..63}

\* _american_to_decimal(odds) called with a Python number (numpy = FALSE) or
\* with a numpy scalar (numpy = TRUE): Python's division by zero raises
american_to_decimal ==
    /\ \E odds \in AmericanOdds, numpy \in BOOLEAN :
          ret' = [op |-> "american_to_decimal", odds |-> odds,
                  numpy |-> numpy,
                  val |-> IF odds = Zero /\ ~numpy
                          THEN [exception |-> "ZeroDivisionError"]
                          ELSE [value |-> AmericanToDecimal(odds)]]
    /\ UNCHANGED <<estimation, np_random_state, strategyParams, bankroll,
                   bet_history, roi_initial_bankroll, bets>>

decimal_to_probability ==
    /\ \E decimal_odds \in DecimalOdds :
          ret' = [op |-> "decimal_to_probability",
                  decimal_odds |-> decimal_odds,
                  val |-> DecimalToProbability(decimal_odds)]
    /\ UNCHANGED <<estimation, np_random_state, strategyParams, bankroll,
                   bet_history, roi_initial_bankroll, bets>>

\* GolfDatabase.add_odds: the decimal_odds and implied_probability it stores
AddOdds(american_odds) ==
    IF american_odds = Zero THEN [exception |-> "ZeroDivisionError"]
    ELSE LET decimal_odds ==
                 IF RLt(Zero, american_odds)
                 THEN FAdd(FDiv(american_odds, Hundred), One)
                 ELSE FAdd(FDiv(Hundred, RAbs(american_odds)), One)
         IN  [value |-> [american_odds |-> american_odds,
                         decimal_odds |-> decimal_odds,
                         implied_probability |-> FDiv(One, decimal_odds)]]

add_odds ==
    /\ \E american_odds \in AmericanOdds \ {NaN} :
          ret' = [op |-> "add_odds", american_odds |-> american_odds,
                  val |-> AddOdds(american_odds)]
    /\ UNCHANGED <<estimation, np_random_state, strategyParams, bankroll,
                   bet_history, roi_initial_bankroll, bets>>

NextOdds ==
    \/ american_to_decimal
    \/ decimal_to_probability
    \/ add_odds

SpecOdds == Init /\ [][NextOdds]_vars

\* a call of _american_to_decimal with odds that are present and not zero
ConvertedAmerican ==
    /\ ret.op = "american_to_decimal"
    /\ ret.odds \notin {NaN, Zero}

\* what the conversions give for odds that are present and not zero
AmericanFormula ==
    ConvertedAmerican =>
        /\ "value" \in DOMAIN ret.val
        /\ RLt(Zero, ret.odds) =>
              ret.val.value = FAdd(FDiv(ret.odds, Hundred), One)
        /\ RLt(ret.odds, Zero) =>
              ret.val.value = FAdd(FDiv(Hundred, RAbs(ret.odds)), One)
        /\ ret.odds = R(400) => ret.val.value = R(5)
        /\ ret.odds = R(-200) => ret.val.value = Q(3, 2)

\* a call of _decimal_to_probability with odds above 1
AboveOne ==
    /\ ret.op = "decimal_to_probability"
    /\ ret.decimal_odds # NaN
    /\ RLt(One, ret.decimal_odds)

NoProbabilityUpToOne ==
    (/\ ret.op = "decimal_to_probability"
     /\ ret.decimal_odds # NaN
     /\ RLe(ret.decimal_odds, One)) => ret.val = NaN

\* C23 (as claimed): _american_to_decimal(a) is a/100 + 1 for a > 0 and
\* 100/|a| + 1 for a < 0, +400 gives 5.0 and -200 gives 1.5; for every
\* decimal d > 1 the product _decimal_to_probability(d) * d is exactly 1; and
\* there is no probability for d <= 1.
C23_RoundTripExact ==
    /\ AmericanFormula
    /\ AboveOne => FMul(ret.val, ret.decimal_odds) = One
    /\ NoProbabilityUpToOne

\* C23 (amended): the same, with the product _decimal_to_probability(d) * d
\* equal to 1 up to rounding.
C23_RoundTripRounded ==
    /\ AmericanFormula
    /\ AboveOne =>
          /\ ret.val = FDiv(One, ret.decimal_odds)
          /\ Near(FMul(ret.val, ret.decimal_odds), One)
    /\ NoProbabilityUpToOne

\* C23 witness: a round trip whose product is not 1.
C23_Witness ==
    /\ AboveOne
    /\ ret.decimal_odds = R(13)
    /\ FMul(ret.val, ret.decimal_odds) # One

(***************************************************************************)
(* OddsImporter.find_value_bets (SpecValueBets).  The odds table has the   *)
(* shape of the frames import_csv returns; our_probabilities is a          *)
(* dictionary, given as the sequence of its items in insertion order.      *)
(***************************************************************************)
\* rows of an odds table: implied_prob present, missing, zero and negative
OddsRows ==
    {[player |-> "p1", outright_decimal |-> R(15), implied_prob |-> Q(1, 15)],
     [player |-> "p1", outright_decimal |-> NaN, implied_prob |-> NaN],
     [player |-> "p2", outright_decimal |-> Q(3, 2), implied_prob |-> Q(2, 3)],
     [player |-> "p2", outright_decimal |-> Inf, implied_prob |-> Zero],
     [player |-> "p2", outright_decimal |-> R(5), implied_prob |-> Q(-1, 10)]}

OddsTables ==
    {EmptyFrame}
        \cup [columns : {{"player", "outright_decimal", "implied_prob"}},
              rows : SeqsUpTo(OddsRows, MaxRows)]

OurProbabilities ==
    {<<>>,
     <<<<"p1", Q(1, 10)>>, <<"p2", Q(8, 10)>>>>,
     <<<<"p2", Q(8, 10)>>, <<"p1", Q(1, 10)>>, <<"p3", Q(2, 10)>>>>,
     <<<<"p3", Q(5, 10)>>, <<"p1", Q(5, 100)>>>>}

DefaultMinEdge == Q(5, 100)

\* round(x, digits) of a finite x: to the nearest multiple of 10^-digits,
\* ties to even
Round(x, digits) ==
    LET scaled == RMul(RAbs(x), R(10 ^ digits))
        nearest == Q(RoundHalfEven(scaled), 10 ^ digits)
    IN  IF RLt(x, Zero) THEN RNeg(nearest) ELSE nearest

\* the rows of odds_df['player'] == player
PlayerOdds(odds_df, player) ==
    SelectSeq(odds_df.rows, LAMBDA row : row.player = player)

\* 'if market_prob and market_prob > 0': zero is falsy, nan compares false
MarketPositive(market_prob) == market_prob # NaN /\ RLt(Zero, market_prob)

\* mutation: a player whose market probability is not positive is given the
\* market probability our_prob / 2
ValueBets_filled(player_odds, player, our_prob, minimum_edge) ==
    IF Len(player_odds) = 0 THEN <<>>
    ELSE LET first == player_odds[1].implied_prob
             market_prob == IF MarketPositive(first) THEN first
                            ELSE RDiv(our_prob, R(2))
             edge == RDiv(RSub(our_prob, market_prob), market_prob)
         IN  IF RLe(minimum_edge, edge)
             THEN <<[player |-> player,
                     our_prob |-> Round(our_prob, 3),
                     market_prob |-> Round(market_prob, 3),
                     edge |-> Round(RMul(edge, Hundred), 1),
                     decimal_odds |-> player_odds[1].outright_decimal,
                     expected_value |-> Zero]>>
             ELSE <<>>

\* one round of the loop over our_probabilities: the bets it appends
ValueBets(player_odds, player, our_prob, minimum_edge) ==
    IF Len(player_odds) = 0 THEN <<>>
    ELSE LET market_prob == player_odds[1].implied_prob
         IN  IF MarketPositive(market_prob)
             THEN LET edge == RDiv(RSub(our_prob, market_prob), market_prob)
                      decimal_odds == player_odds[1].outright_decimal
                  IN  IF RLe(minimum_edge, edge)
                      THEN <<[player |-> player,
                              our_prob |-> Round(our_prob, 3),
                              market_prob |-> Round(market_prob, 3),
                              edge |-> Round(RMul(edge, Hundred), 1),
                              decimal_odds |-> decimal_odds,
                              expected_value |->
                                  IF decimal_odds = NaN THEN NaN
                                  ELSE Round(RSub(RMul(our_prob,
                                                       decimal_odds),
                                                  One), 3)]>>
                      ELSE <<>>
             ELSE <<>>

\* value_bets after the first k items of our_probabilities
RECURSIVE ValueBetsLoop(_, _, _, _)
ValueBetsLoop(odds_df, our_probabilities, minimum_edge, k) ==
    IF k = 0 THEN <<>>
    ELSE ValueBetsLoop(odds_df, our_probabilities, minimum_edge, k - 1)
             \o ValueBets(PlayerOdds(odds_df, our_probabilities[k][1]),
                          our_probabilities[k][1], our_probabilities[k][2],
                          minimum_edge)

\* value_bets.sort(key=edge, reverse=True): stable, largest edge first
RECURSIVE SortByEdge(_)
SortByEdge(value_bets) ==
    IF Len(value_bets) = 0 THEN <<>>
    ELSE LET front == SortByEdge(SubSeq(value_bets, 1, Len(value_bets) - 1))
             last == value_bets[Len(value_bets)]
             n == Cardinality({i \in 1..Len(front) :
                                  RLe(last.edge, front[i].edge)})
         IN  SubSeq(front, 1, n) \o <<last>> \o SubSeq(front, n + 1, Len(front))

\* find_value_bets: a frame without the column 'player' makes the first
\* lookup raise
FindValueBets(odds_df, our_probabilities, minimum_edge) ==
    IF Len(our_probabilities) > 0 /\ "player" \notin odds_df.columns
    THEN [exception |-> "KeyError"]
    ELSE [value |->
            SortByEdge(ValueBetsLoop(odds_df, our_probabilities, minimum_edge,
                                     Len(our_probabilities)))]

find_value_bets ==
    /\ \E odds_df \in OddsTables, our_probabilities \in OurProbabilities :
          ret' = [op |-> "find_value_bets", odds_df |-> odds_df,
                  our_probabilities |-> our_probabilities,
                  val |-> FindValueBets(odds_df, our_probabilities,
                                        DefaultMinEdge)]
    /\ UNCHANGED <<estimation, np_random_state, strategyParams, bankroll,
                   bet_history, roi_initial_bankroll, bets>>

NextValueBets == find_value_bets

SpecValueBets == Init /\ [][NextValueBets]_vars

\* the player has a row in the table and the first of its rows, the one
\* find_value_bets reads, has a positive implied probability
Priced(odds_df, player) ==
    /\ \E i \in 1..Len(odds_df.rows) : odds_df.rows[i].player = player
    /\ MarketPositive(PlayerOdds(odds_df, player)[1].implied_prob)

\* C25: every bet find_value_bets returns is for a player that has a row in
\* the odds table with a positive implied probability; a player absent from
\* the table, or whose market probability is missing, zero or negative, is
\* not in the result, and no bet carries a filled-in market probability.
C25_ExcludesUnpriced ==
    (ret.op = "find_value_bets" /\ "value" \in DOMAIN ret.val) =>
        \A i \in 1..Len(ret.val.value) :
            LET bet == ret.val.value[i]
            IN  /\ Priced(ret.odds_df, bet.player)
                /\ \E k \in 1..Len(ret.odds_df.rows) :
                      /\ ret.odds_df.rows[k].player = bet.player
                      /\ MarketPositive(ret.odds_df.rows[k].implied_prob)
                      /\ bet.market_prob =
                            Round(ret.odds_df.rows[k].implied_prob, 3)

\* C25 witness: of three players asked about, one is returned, one is left
\* out because its market probability is zero and one because the market
\* does not list it.
C25_Witness ==
    /\ ret.op = "find_value_bets"
    /\ Len(ret.our_probabilities) = 3
    /\ Len(ret.odds_df.rows) = 2
    /\ ret.odds_df.rows[1].player = "p1"
    /\ ret.odds_df.rows[2].implied_prob = Zero
    /\ "value" \in DOMAIN ret.val
    /\ Len(ret.val.value) = 1
    /\ ret.val.value[1].player = "p1"
    /\ ret.val.value[1].market_prob = Q(67, 1000)
(***************************************************************************)
(* The two ledgers fed the same wagers, in floating point (SpecLedgers).    *)
(* Both ledgers total their columns before dividing: the calculator with   *)
(* Python's sum, left to right, the strategy with pandas' Series.sum, which *)
(* adds the rows of a column in an order of its own (numpy sums pairwise).  *)
(***************************************************************************)
MaxWagers == 3

\* arguments of place_bet and add_bet: stakes and odds that are floats of
\* the model, with products that have to be rounded
FloatWagers == {[stake |-> R(33), odds |-> Q(3, 2)],
                [stake |-> R(10), odds |-> R(15)]}

FSub(a, b) == Fl(RSub(a, b))

\* the dictionary of place_bet, each product and difference rounded
PlaceBetRecordRounded(player, amount, odds, tournament, actual_winner) ==
    LET won == PlaceBetWon(player, actual_winner)
    IN  [tournament |-> tournament,
         player |-> player,
         amount |-> amount,
         odds |-> odds,
         potential_return |-> FMul(amount, odds),
         actual_winner |-> actual_winner,
         won |-> won,
         profit |-> IF won THEN FSub(FMul(amount, odds), amount)
                    ELSE RNeg(amount)]

place_bet_rounded ==
    /\ Len(bet_history) < MaxWagers
    /\ \E player \in Players, w \in FloatWagers,
          tournament \in Tournaments, actual_winner \in Winners :
          LET bet == PlaceBetRecordRounded(player, w.stake, w.odds,
                                           tournament, actual_winner)
          IN  /\ bankroll' = IF bet.won THEN FAdd(bankroll, bet.profit)
                             ELSE FSub(bankroll, bet.amount)
              /\ bet_history' = Append(bet_history, bet)
              /\ ret' = [op |-> "place_bet", val |-> bet]
    /\ UNCHANGED <<estimation, np_random_state, strategyParams,
                   roi_initial_bankroll, bets>>

AddBetRecordRounded_grossprofit(stake, odds, won, american_odds) ==
    LET profit == IF won THEN FMul(stake, odds) ELSE RNeg(stake)
    IN  [stake |-> stake,
         odds |-> odds,
         american_odds |-> american_odds,
         won |-> won,
         profit |-> profit,
         return |-> FAdd(stake, profit)]

\* the dictionary of add_bet, each product, difference and sum rounded
AddBetRecordRounded(stake, odds, won, american_odds) ==
    LET profit == IF won THEN FSub(FMul(stake, odds), stake) ELSE RNeg(stake)
    IN  [stake |-> stake,
         odds |-> odds,
         american_odds |-> american_odds,
         won |-> won,
         profit |-> profit,
         return |-> FAdd(stake, profit)]

\* add_bet called with the wager that place_bet recorded at the same
\* position of the strategy's ledger: the same sequence goes into both
add_bet_rounded ==
    /\ Len(bets) < Len(bet_history)
    /\ LET placed == bet_history[Len(bets) + 1]
       IN  bets' = Append(bets, AddBetRecordRounded(placed.amount, placed.odds,
                                                    placed.won, NoAmerican))
    /\ ret' = [op |-> "add_bet", val |-> None]
    /\ UNCHANGED <<estimation, np_random_state, strategyParams, bankroll,
                   bet_history, roi_initial_bankroll>>

\* df['profit'].sum() and df['amount'].sum() over the rows in I: every way
\* of adding the rows two partial sums at a time, the same way for both
\* columns, as <<total_profit, total_staked>>. Addition commutes, so the two
\* parts are taken with the first row of I in A.
RECURSIVE SeriesTotals(_, _)
SeriesTotals(history, I) ==
    IF Cardinality(I) = 1
    THEN {<<history[i].profit, history[i].amount>> : i \in I}
    ELSE LET first == CHOOSE i \in I : \A j \in I : i <= j
         IN  UNION {{<<FAdd(a[1], b[1]), FAdd(a[2], b[2])>> :
                        a \in SeriesTotals(history, A),
                        b \in SeriesTotals(history, I \ A)} :
                    A \in {B \in (SUBSET I) \ {I} : first \in B}}

\* the 'roi' entry of get_performance_metrics from the two totals
StrategyRoi(totals) ==
    IF RLt(Zero, totals[2]) THEN FMul(FDiv(totals[1], totals[2]), Hundred)
    ELSE Zero

\* get_performance_metrics: the entries of the dictionary that come from the
\* two totals
get_performance_metrics_rounded ==
    /\ IF Len(bet_history) = 0
       THEN ret' = [op |-> "get_performance_metrics", val |-> <<>>]
       ELSE \E totals \in SeriesTotals(bet_history, DOMAIN bet_history) :
               ret' = [op |-> "get_performance_metrics",
                       val |-> [total_profit |-> totals[1],
                                total_staked |-> totals[2],
                                roi |-> StrategyRoi(totals)]]
    /\ UNCHANGED <<estimation, np_random_state, strategyParams, bankroll,
                   bet_history, roi_initial_bankroll, bets>>

CalculateRoiRounded_fraction(bs) ==
    IF Len(bs) = 0 THEN Zero
    ELSE LET total_staked == FSum(Column(bs, "stake"))
             total_profit == FSum(Column(bs, "profit"))
         IN  IF total_staked = Zero THEN Zero
             ELSE FDiv(total_profit, total_staked)

\* calculate_roi with the built-in sum, left to right
CalculateRoiRounded(bs) ==
    IF Len(bs) = 0 THEN Zero
    ELSE LET total_staked == FSum(Column(bs, "stake"))
             total_profit == FSum(Column(bs, "profit"))
         IN  IF total_staked = Zero THEN Zero
             ELSE FMul(FDiv(total_profit, total_staked), Hundred)

calculate_roi_rounded ==
    /\ ret' = [op |-> "calculate_roi", val |-> CalculateRoiRounded(bets)]
    /\ UNCHANGED <<estimation, np_random_state, strategyParams, bankroll,
                   bet_history, roi_initial_bankroll, bets>>

NextLedgers ==
    \/ place_bet_rounded
    \/ add_bet_rounded
    \/ get_performance_metrics_rounded
    \/ calculate_roi_rounded

SpecLedgers == Init /\ [][NextLedgers]_vars
\* the same wagers, of a positive amount, in both ledgers
SameWagers ==
    /\ Len(bets) > 0
    /\ Len(bets) = Len(bet_history)
    /\ \A i \in 1..Len(bets) :
          /\ bets[i].stake = bet_history[i].amount
          /\ bets[i].odds = bet_history[i].odds
          /\ bets[i].won = bet_history[i].won
          /\ RLt(Zero, bets[i].stake)

SameProfits == \A i \in 1..Len(bets) : bets[i].profit = bet_history[i].profit

\* x and y differ by no more than the rounding of the totals allows: the
\* error of a rounded sum is in proportion to the sum of the magnitudes of
\* its terms, here 100 * sum |profit| / sum stake
WithinRounding(x, y) ==
    LET magnitudes == [i \in 1..Len(bets) |-> RAbs(bets[i].profit)]
        scale == RDiv(RMul(Hundred, RSum(magnitudes)),
                      RSum(Column(bets, "stake")))
    IN  RLe(RAbs(RSub(x, y)), RMul(Tolerance, scale))

====
